---- MODULE Spec2Model ----
(***************************************************************************)
(* Job Hunt Tracker: the stage lifecycle and follow-up reminder engine.    *)
(*                                                                         *)
(* The model follows the second (current) ApplicationEngine class of       *)
(* src/src/core/ApplicationEngine.js (lines 530-1254) and the services it  *)
(* calls: FollowUpService (src/unnamed/part_012), the local                *)
(* InterviewService (src/src/core/services/SettingsService.js) and the     *)
(* FirebaseInterviewService.                                               *)
(*                                                                         *)
(* Every engine method mutates the in-memory collection synchronously,     *)
(* before its first await on the storage port, so one public operation is  *)
(* one action here.  Each method is an operator from the state it is       *)
(* called in to the state it leaves and the value it returns; the action   *)
(* of that method applies the operator to inputs drawn from small sets.    *)
(* Time is counted in whole days.  The Firestore snapshot listener is      *)
(* taken to deliver a local write at once (latency compensation), so the   *)
(* FirebaseInterviewService cache and the local InterviewService array are *)
(* both the variable `interviews`.                                         *)
(***************************************************************************)
EXTENDS Integers, Sequences, FiniteSets, TLC

VARIABLES applications, interviews, backend, now, nextId, listeners, io

vars == <<applications, interviews, backend, now, nextId, listeners, io>>

(* ------------------------------ bounds -------------------------------- *)

\* applications held in the collection at one time
MaxApps == 1
\* interactions logged on one application
MaxLog == 2
\* interviews held by the interview service at one time
MaxInterviews == 2
\* the clock runs from day 0 to day MaxTime
MaxTime == 1
\* a stage code that the registry does not hold
InvalidStage == 7
\* interviews held at one time when only the interview service is driven
MaxRounds == 4
\* interview ids drawn when only the interview service is driven
MaxRoundIds == 5
\* interactions logged when only the follow-up cycle is driven
MaxTrackLog == 4
\* the last day of the clock when only the follow-up cycle is driven
MaxTrackTime == 5
\* consecutive recordFollowUp calls tried on one tracker
MaxCalls == 5
\* days after the current one at which a reminder check is tried
Horizon == 10
\* operations in progress: applications held at once, entries in a log,
\* interviews held at once, ids handed out, callbacks that can subscribe
MaxIoApps == 1
MaxIoLog == 2
MaxIoInterviews == 1
MaxIoIds == 4
MaxCallbacks == 2
\* applications in a collection handed to the analytics
MaxAnalyticsApps == 3
\* the follow-up service driven directly: the longest HR deadline passed to
\* startTracking, the last day of the clock, follow-ups recorded on a tracker
MaxDeadline == 2
MaxServiceTime == 2
MaxServiceAttempts == 2
\* one interaction log driven alone: entries in the log, interviews held at
\* once, ids handed out
MaxLogLen == 3
MaxLogInterviews == 1
MaxLogIds == 5
\* the ids of the collection driven alone: applications held at once, the
\* largest id a caller supplies, ids the generator hands out
MaxIdApps == 2
MaxSuppliedId == 2
MaxGeneratedIds == 3
\* scheduleInterview with storage snapshots arriving: entries in a log,
\* interviews held at once, ids handed out
MaxSnapLog == 3
MaxSnapInterviews == 2
MaxSnapIds == 6
\* the collection and the interview store: applications held at once, entries
\* in a log, interviews held at once, ids handed out, days on the clock
MaxStoreApps == 2
MaxStoreLog == 2
MaxStoreInterviews == 1
MaxIds == 4
MaxStoreTime == 1

(* ----------------------------- constants ------------------------------ *)

\* JS null / undefined in a numeric or timestamp position
NULL == -1
\* a key that is not present in a data object
Absent == "<absent>"

STAGES ==
    [s \in 0..6 |->
        [name |-> CASE s = 1 -> "Opportunity Received"
                    [] s = 2 -> "Under Discussion"
                    [] s = 3 -> "Screening"
                    [] s = 4 -> "Shortlisted"
                    [] s = 5 -> "Interviewing"
                    [] s = 6 -> "Offer Stage"
                    [] s = 0 -> "Closed"]]

STAGE_ACTIONS ==
    [s \in 0..6 |->
        CASE s = 1 -> "null"
          [] s = 2 -> "prompt_details"
          [] s = 3 -> "start_followup"
          [] s = 4 -> "null"
          [] s = 5 -> "schedule_interview"
          [] s = 6 -> "prompt_result"
          [] s = 0 -> "prompt_close_reason"]

FOLLOWUP_DEFAULTS ==
    [initialWaitDays |-> 3, subsequentWaitDays |-> 5, maxAttempts |-> 3]

VALID_TYPES ==
    {"hr_called", "followed_up", "document_received", "interview_round", "note"}

CLOSE_REASONS == {"rejected", "declined", "ghosted", "withdrawn"}

\* the stages of the stage histogram, in display order
STAGE_ORDER == <<1, 2, 3, 4, 5, 6, 0>>

\* no engine operation is under way and none has been observed
IdleIo ==
    [op |-> "none", status |-> "idle", success |-> FALSE, writes |-> <<>>,
     notified |-> 0, calls |-> <<>>]

(* ------------------------------ inputs -------------------------------- *)

StageInputs == (DOMAIN STAGES) \cup {InvalidStage}

\* company name / role as typed: blank, whitespace only, or a real value
NameInputs == {"", " ", "Acme"}
RoleInputs == {"", "Engineer"}

\* data.type of a logged interaction ("other" is not a valid type)
TypeInputs == VALID_TYPES \cup {"other"}

\* the reason argument of closeApplication ("" is a missing reason)
ReasonInputs == CLOSE_REASONS \cup {""}

(* ------------------------------ models -------------------------------- *)

\* String.prototype.trim on the inputs above
Trim(s) == IF s = " " THEN "" ELSE s

Application_createFollowUpTracker ==
    [isActive |-> FALSE, attempts |-> 0, lastFollowUpAt |-> NULL,
     nextReminderAt |-> NULL, hrDeadlineDays |-> NULL, waitingContext |-> ""]

\* the errors array of Application.validate
Application_errors(data) ==
    (IF Trim(data.companyName) = "" THEN <<"Company name is required">> ELSE <<>>)
    \o (IF Trim(data.role) = "" THEN <<"Role is required">> ELSE <<>>)

\* valid: errors.length === 0
Application_validate(data) == Application_errors(data) = <<>>

Application_create(data, id, t) ==
    [id |-> id,
     companyName |-> data.companyName,
     role |-> data.role,
     currentStage |-> IF data.currentStage = NULL THEN 1 ELSE data.currentStage,
     finalResult |-> "",
     lastUpdated |-> t,
     interactions |-> <<>>,
     followUpTracker |-> Application_createFollowUpTracker]

\* {...existing, ...updates, id, createdAt, lastUpdated: now}
Application_update(existing, updates, t) ==
    [existing EXCEPT
        !.companyName = IF updates.companyName = Absent THEN @ ELSE updates.companyName,
        !.role = IF updates.role = Absent THEN @ ELSE updates.role,
        !.currentStage = IF updates.currentStage = NULL THEN @ ELSE updates.currentStage,
        !.finalResult = IF updates.finalResult = Absent THEN @ ELSE updates.finalResult,
        !.lastUpdated = t]

\* the notes of the two system entries, reduced to their kind: a stage change
\* ("Stage: <old> -> <new>") and a closure ("Closed: <old> -> Closed (<reason>)")
StageNoteText == "Stage: old -> new"
ClosedNoteText == "Closed: old -> Closed (reason)"

Interaction_create(id, type, notes, interviewId) ==
    [id |-> id,
     type |-> IF type \in VALID_TYPES THEN type ELSE "note",
     notes |-> notes,
     interviewId |-> interviewId]

(* -------------------------- FollowUpService --------------------------- *)

\* startTracking with the wait of a repeated follow-up in place of the
\* initial wait
startTrackingLongWait(app, context, hrDeadlineDays, t) ==
    [app EXCEPT !.followUpTracker =
        [isActive |-> TRUE, attempts |-> 0, lastFollowUpAt |-> NULL,
         nextReminderAt |-> t + FOLLOWUP_DEFAULTS.subsequentWaitDays,
         hrDeadlineDays |-> hrDeadlineDays,
         waitingContext |-> context]]

\* hrDeadlineDays || initialWaitDays: null and 0 are both falsy
startTracking(app, context, hrDeadlineDays, t) ==
    LET waitDays == IF hrDeadlineDays = NULL \/ hrDeadlineDays = 0
                    THEN FOLLOWUP_DEFAULTS.initialWaitDays
                    ELSE hrDeadlineDays
    IN [app EXCEPT !.followUpTracker =
            [isActive |-> TRUE, attempts |-> 0, lastFollowUpAt |-> NULL,
             nextReminderAt |-> t + waitDays,
             hrDeadlineDays |-> hrDeadlineDays,
             waitingContext |-> context]]

recordFollowUp(app, t) ==
    [app EXCEPT !.followUpTracker.attempts = @ + 1,
                !.followUpTracker.lastFollowUpAt = t,
                !.followUpTracker.nextReminderAt =
                    t + FOLLOWUP_DEFAULTS.subsequentWaitDays]

\* a ghost threshold that needs one attempt more
isGhostCandidateAbove(tracker) ==
    tracker.attempts > FOLLOWUP_DEFAULTS.maxAttempts

\* tracker.attempts >= FOLLOWUP_DEFAULTS.maxAttempts
isGhostCandidate(tracker) ==
    tracker.attempts >= FOLLOWUP_DEFAULTS.maxAttempts

\* the value recordFollowUp returns
recordFollowUpResult(app, t) ==
    LET tracker == recordFollowUp(app, t).followUpTracker
    IN [isGhostCandidate |-> isGhostCandidate(tracker),
        attempts |-> tracker.attempts]

\* an HR response that also forgets the reminder date
recordHRResponseClearsReminder(app) ==
    [app EXCEPT !.followUpTracker.attempts = 0,
                !.followUpTracker.lastFollowUpAt = NULL,
                !.followUpTracker.nextReminderAt = NULL]

recordHRResponse(app) ==
    [app EXCEPT !.followUpTracker.attempts = 0,
                !.followUpTracker.lastFollowUpAt = NULL]

\* stopTracking that keeps the reminder date
stopTrackingKeepsReminder(app) ==
    [app EXCEPT !.followUpTracker.isActive = FALSE]

stopTracking(app) ==
    [app EXCEPT !.followUpTracker.isActive = FALSE,
                !.followUpTracker.nextReminderAt = NULL]

\* FollowUpService.dismissNudge
dismissNudge(app) ==
    [app EXCEPT !.followUpTracker.isActive = FALSE,
                !.followUpTracker.nextReminderAt = NULL]

\* a reminder that shows only from the day after it falls due
isDueAfterTheDay(app, t) ==
    /\ app.followUpTracker.isActive
    /\ app.followUpTracker.nextReminderAt # NULL
    /\ t > app.followUpTracker.nextReminderAt

\* a reminder that shows only on the day it falls due
isDueOnTheDay(app, t) ==
    /\ app.followUpTracker.isActive
    /\ app.followUpTracker.nextReminderAt # NULL
    /\ t = app.followUpTracker.nextReminderAt

\* tracker.isActive && tracker.nextReminderAt && now >= reminderDate
isDue(app, t) ==
    /\ app.followUpTracker.isActive
    /\ app.followUpTracker.nextReminderAt # NULL
    /\ t >= app.followUpTracker.nextReminderAt

\* the appIds checkReminders reports at clock value t
checkReminders(apps, t) ==
    {apps[i].id : i \in {j \in 1..Len(apps) : isDue(apps[j], t)}}

\* one entry of the list checkReminders returns
reminderOf(app, t) ==
    [appId |-> app.id,
     context |-> app.followUpTracker.waitingContext,
     attempts |-> app.followUpTracker.attempts,
     isGhostCandidate |-> isGhostCandidate(app.followUpTracker),
     daysSinceReminder |-> t - app.followUpTracker.nextReminderAt]

\* the list checkReminders returns at clock value t, in collection order
reminderList(apps, t) ==
    LET due == SelectSeq(apps, LAMBDA app : isDue(app, t))
    IN [k \in 1..Len(due) |-> reminderOf(due[k], t)]

(* ----------------------------- the engine ----------------------------- *)

\* a lookup that falls back on the first element
findIndexOrFirst(seq, id) ==
    IF \E i \in 1..Len(seq) : seq[i].id = id
    THEN CHOOSE i \in 1..Len(seq) :
            seq[i].id = id /\ \A j \in 1..(i - 1) : seq[j].id # id
    ELSE IF Len(seq) > 0 THEN 1 ELSE 0

\* Array.prototype.findIndex, with 0 for "not found"
findIndex(seq, id) ==
    IF \E i \in 1..Len(seq) : seq[i].id = id
    THEN CHOOSE i \in 1..Len(seq) :
            seq[i].id = id /\ \A j \in 1..(i - 1) : seq[j].id # id
    ELSE 0

\* Array.prototype.splice(k, 1)
RemoveAt(seq, k) ==
    [j \in 1..(Len(seq) - 1) |-> IF j < k THEN seq[j] ELSE seq[j + 1]]

\* the result of an engine method: the collection and the id generator after
\* its synchronous part, what it returns (the errors array when create,
\* update or scheduleInterview fails), and the persistence calls
\* (saveOne / save) and notify() calls it makes
Result(apps, nid, success, ret, saves, notifies) ==
    [apps |-> apps, nid |-> nid, success |-> success, ret |-> ret,
     saves |-> saves, notifies |-> notifies]

\* a lookup that treats stage code 0 as falsy
StageActionNoZero(s) == IF s \in 1..6 THEN STAGE_ACTIONS[s] ELSE "null"

\* STAGE_ACTIONS[newStage] || null
StageAction(s) == IF s \in DOMAIN STAGE_ACTIONS THEN STAGE_ACTIONS[s] ELSE "null"

\* moveToStage without its same-stage guard
sameStageNever(app, newStage) == FALSE

\* app.currentStage === newStage
sameStage(app, newStage) == app.currentStage = newStage

\* a moveToStage that reopens: it clears the final result as it moves
moveToStageReopening(apps, nid, appId, newStage, t) ==
    LET i == findIndex(apps, appId) IN
    IF i = 0 \/ sameStage(apps[i], newStage)
    THEN Result(apps, nid, FALSE, "null", 0, 0)
    ELSE LET oldStage == apps[i].currentStage
             note == Interaction_create(nid, "note", StageNoteText, NULL)
             a1 == [apps[i] EXCEPT !.currentStage = newStage,
                                   !.finalResult = "",
                                   !.lastUpdated = t,
                                   !.interactions = Append(@, note)]
             a2 == IF newStage = 3 THEN startTracking(a1, "screening", NULL, t) ELSE a1
             a3 == IF newStage # 3 /\ oldStage = 3 THEN stopTracking(a2) ELSE a2
         IN Result([apps EXCEPT ![i] = a3], nid + 1, TRUE, StageAction(newStage), 1, 1)

\* ApplicationEngine.moveToStage
moveToStage(apps, nid, appId, newStage, t) ==
    LET i == findIndex(apps, appId) IN
    IF i = 0 \/ sameStage(apps[i], newStage)
    THEN Result(apps, nid, FALSE, "null", 0, 0)
    ELSE LET oldStage == apps[i].currentStage
             note == Interaction_create(nid, "note", StageNoteText, NULL)
             a1 == [apps[i] EXCEPT !.currentStage = newStage,
                                   !.lastUpdated = t,
                                   !.interactions = Append(@, note)]
             a2 == IF newStage = 3 THEN startTracking(a1, "screening", NULL, t) ELSE a1
             a3 == IF newStage # 3 /\ oldStage = 3 THEN stopTracking(a2) ELSE a2
         IN Result([apps EXCEPT ![i] = a3], nid + 1, TRUE, StageAction(newStage), 1, 1)

\* a close that does not record the reason
markClosedNoReason(app, reason, t) ==
    [app EXCEPT !.currentStage = 0, !.lastUpdated = t]

\* app.currentStage = 0; app.finalResult = reason; app.lastUpdated = now
markClosed(app, reason, t) ==
    [app EXCEPT !.currentStage = 0, !.finalResult = reason, !.lastUpdated = t]

\* ApplicationEngine.closeApplication
closeApplication(apps, nid, appId, reason, t) ==
    LET i == findIndex(apps, appId) IN
    IF i = 0
    THEN Result(apps, nid, FALSE, "null", 0, 0)
    ELSE LET a1 == markClosed(apps[i], reason, t)
             a2 == stopTracking(a1)
             note == Interaction_create(nid, "note", ClosedNoteText, NULL)
             a3 == [a2 EXCEPT !.interactions = Append(@, note)]
         IN Result([apps EXCEPT ![i] = a3], nid + 1, TRUE, "null", 1, 1)

\* data.type === 'hr_called' || data.type === 'document_received'
isHRResponse(type) == type = "hr_called" \/ type = "document_received"

\* a follow-up that counts whether or not the tracker is running
countsAsFollowUpAlways(app, type) == type = "followed_up"

\* data.type === 'followed_up' && app.followUpTracker?.isActive
countsAsFollowUp(app, type) ==
    type = "followed_up" /\ app.followUpTracker.isActive

\* data.id of a data object, NULL when it carries none or a falsy one
\* (data.id || generateId(...))
suppliedId(data) ==
    IF "id" \in DOMAIN data THEN (IF data.id = 0 THEN NULL ELSE data.id) ELSE NULL

\* ApplicationEngine.addInteraction; newStage = NULL is an omitted argument
addInteraction(apps, nid, appId, data, newStage, t) ==
    LET i == findIndex(apps, appId) IN
    IF i = 0
    THEN Result(apps, nid, FALSE, "null", 0, 0)
    ELSE LET given == suppliedId(data)
             interaction ==
                 Interaction_create(IF given = NULL THEN nid ELSE given,
                                    data.type, data.notes, data.interviewId)
             a1 == [apps[i] EXCEPT !.interactions = Append(@, interaction),
                                   !.lastUpdated = t]
             a2 == IF isHRResponse(data.type) THEN recordHRResponse(a1) ELSE a1
             a3 == IF countsAsFollowUp(a2, data.type)
                   THEN recordFollowUp(a2, t) ELSE a2
             a4 == IF newStage # NULL
                   THEN [a3 EXCEPT !.currentStage = newStage] ELSE a3
         IN Result([apps EXCEPT ![i] = a4],
                   IF given = NULL THEN nid + 1 ELSE nid, TRUE, "null", 1, 1)

\* ApplicationEngine.update
update(apps, nid, appId, data, t) ==
    LET i == findIndex(apps, appId) IN
    IF i = 0
    THEN Result(apps, nid, FALSE, <<"Application not found">>, 0, 0)
    ELSE LET merged == Application_update(apps[i], data, t) IN
         IF ~Application_validate(merged)
         THEN Result(apps, nid, FALSE, Application_errors(merged), 0, 0)
         ELSE Result([apps EXCEPT ![i] = merged], nid, TRUE, "null", 1, 1)

\* a reminder check that re-arms each reminder it reports
checkFollowUpRemindersRearming(apps, t) ==
    [apps |-> [i \in 1..Len(apps) |->
                  IF isDue(apps[i], t)
                  THEN [apps[i] EXCEPT !.followUpTracker.nextReminderAt =
                            t + FOLLOWUP_DEFAULTS.subsequentWaitDays]
                  ELSE apps[i]],
     reminders |-> reminderList(apps, t)]

\* ApplicationEngine.checkFollowUpReminders: the collection it leaves and the
\* list it returns
checkFollowUpReminders(apps, t) ==
    [apps |-> apps, reminders |-> reminderList(apps, t)]

\* an updates object that carries no application field of the model
NoFields ==
    [companyName |-> Absent, role |-> Absent, currentStage |-> NULL,
     finalResult |-> Absent]

\* UIController.dismissFollowUpNudge: dismissNudge on the application, then
\* engine.update with its followUpTracker
dismissFollowUpNudge(apps, nid, appId, t) ==
    LET i == findIndex(apps, appId) IN
    IF i = 0
    THEN Result(apps, nid, FALSE, "null", 0, 0)
    ELSE update([apps EXCEPT ![i] = dismissNudge(@)], nid, appId, NoFields, t)

\* ApplicationEngine.delete: the application is spliced out of the collection
\* and removed from storage; the interview store is not touched
delete(apps, nid, appId) ==
    LET i == findIndex(apps, appId) IN
    IF i = 0
    THEN Result(apps, nid, FALSE, "null", 0, 0)
    ELSE Result(RemoveAt(apps, i), nid, TRUE, "null", 1, 1)

\* a removal that filters out every entry carrying the id
removeInteractionAll(apps, nid, appId, interactionId, t) ==
    LET i == findIndex(apps, appId) IN
    IF i = 0
    THEN Result(apps, nid, FALSE, "null", 0, 0)
    ELSE IF findIndex(apps[i].interactions, interactionId) = 0
         THEN Result(apps, nid, FALSE, "null", 0, 0)
         ELSE Result([apps EXCEPT
                         ![i].interactions =
                             SelectSeq(@, LAMBDA x : x.id # interactionId),
                         ![i].lastUpdated = t],
                     nid, TRUE, "null", 1, 1)

\* ApplicationEngine.removeInteraction
removeInteraction(apps, nid, appId, interactionId, t) ==
    LET i == findIndex(apps, appId) IN
    IF i = 0
    THEN Result(apps, nid, FALSE, "null", 0, 0)
    ELSE LET k == findIndex(apps[i].interactions, interactionId) IN
         IF k = 0
         THEN Result(apps, nid, FALSE, "null", 0, 0)
         ELSE Result([apps EXCEPT ![i].interactions = RemoveAt(@, k),
                                  ![i].lastUpdated = t],
                     nid, TRUE, "null", 1, 1)

(* JSON.stringify / JSON.parse: a JSON text is the tree of its tokens, a     *)
(* number, a string, a boolean, null, an array or an object.               *)

JNum(n) == [t |-> "num", v |-> n]
JStr(x) == [t |-> "str", v |-> x]
JBool(b) == [t |-> "bool", v |-> b]
JNull == [t |-> "null"]
JArr(seq) == [t |-> "arr", v |-> seq]
JObj(fields) == [t |-> "obj", v |-> fields]

\* a text that is not JSON
NotJSON == [t |-> "invalid"]

\* a field that holds null or a number / null or a date string
stringifyNumberOrNull(x) == IF x = NULL THEN JNull ELSE JNum(x)
stringifyDateOrNull(x) == IF x = NULL THEN JNull ELSE JStr(x)

\* a parse that reads null as 0
parseOrNullAsZero(tok) == IF tok.t = "null" THEN 0 ELSE tok.v

\* JSON.parse of a scalar token: null stays null
parseOrNull(tok) == IF tok.t = "null" THEN NULL ELSE tok.v

stringifyTracker(tr) ==
    JObj([isActive |-> JBool(tr.isActive),
          attempts |-> JNum(tr.attempts),
          lastFollowUpAt |-> stringifyDateOrNull(tr.lastFollowUpAt),
          nextReminderAt |-> stringifyDateOrNull(tr.nextReminderAt),
          hrDeadlineDays |-> stringifyNumberOrNull(tr.hrDeadlineDays),
          waitingContext |-> JStr(tr.waitingContext)])

parseTracker(tok) ==
    [isActive |-> tok.v.isActive.v,
     attempts |-> tok.v.attempts.v,
     lastFollowUpAt |-> parseOrNull(tok.v.lastFollowUpAt),
     nextReminderAt |-> parseOrNull(tok.v.nextReminderAt),
     hrDeadlineDays |-> parseOrNull(tok.v.hrDeadlineDays),
     waitingContext |-> tok.v.waitingContext.v]

stringifyInteraction(ix) ==
    JObj([id |-> JNum(ix.id),
          type |-> JStr(ix.type),
          notes |-> JStr(ix.notes),
          interviewId |-> stringifyNumberOrNull(ix.interviewId)])

parseInteraction(tok) ==
    [id |-> tok.v.id.v,
     type |-> tok.v.type.v,
     notes |-> tok.v.notes.v,
     interviewId |-> parseOrNull(tok.v.interviewId)]

stringifyApplication(app) ==
    JObj([id |-> JNum(app.id),
          companyName |-> JStr(app.companyName),
          role |-> JStr(app.role),
          currentStage |-> JNum(app.currentStage),
          finalResult |-> JStr(app.finalResult),
          lastUpdated |-> JStr(app.lastUpdated),
          interactions |-> JArr([k \in 1..Len(app.interactions) |->
                                    stringifyInteraction(app.interactions[k])]),
          followUpTracker |-> stringifyTracker(app.followUpTracker)])

parseApplication(tok) ==
    [id |-> tok.v.id.v,
     companyName |-> tok.v.companyName.v,
     role |-> tok.v.role.v,
     currentStage |-> tok.v.currentStage.v,
     finalResult |-> tok.v.finalResult.v,
     lastUpdated |-> tok.v.lastUpdated.v,
     interactions |-> [k \in 1..Len(tok.v.interactions.v) |->
                          parseInteraction(tok.v.interactions.v[k])],
     followUpTracker |-> parseTracker(tok.v.followUpTracker)]

\* ApplicationEngine.exportData: JSON.stringify(this.applications, null, 2)
exportData(apps) ==
    JArr([i \in 1..Len(apps) |-> stringifyApplication(apps[i])])

\* data.filter(a => !existingIds.has(a.id))
RECURSIVE newApps(_, _)
newApps(data, existingIds) ==
    IF data = <<>> THEN <<>>
    ELSE IF Head(data).id \in existingIds
         THEN newApps(Tail(data), existingIds)
         ELSE <<Head(data)>> \o newApps(Tail(data), existingIds)

\* ApplicationEngine.importData; ret carries the error message of a failure
importData(apps, nid, jsonString, merge) ==
    IF jsonString.t = "invalid"
    THEN Result(apps, nid, FALSE, "Invalid JSON format", 0, 0)
    ELSE IF jsonString.t # "arr"
    THEN Result(apps, nid, FALSE, "Invalid data format: expected array", 0, 0)
    ELSE LET data == [i \in 1..Len(jsonString.v) |->
                         parseApplication(jsonString.v[i])]
         IN IF merge
            THEN Result(apps \o newApps(data, {apps[i].id : i \in 1..Len(apps)}),
                        nid, TRUE, "null", 1, 1)
            ELSE Result(data, nid, TRUE, "null", 1, 1)

(* -------------------------- InterviewService -------------------------- *)

\* the errors array of Interview.validate
Interview_errors(data) ==
    (IF data.applicationId = 0 THEN <<"Application is required">> ELSE <<>>)
    \o (IF data.scheduledAt = NULL
        THEN <<"Interview date/time is required">> ELSE <<>>)
    \o (IF data.type = "" THEN <<"Interview type is required">> ELSE <<>>)
    \o (IF data.mode = "" THEN <<"Interview mode is required">> ELSE <<>>)

\* valid: errors.length === 0
Interview_validate(data) == Interview_errors(data) = <<>>

Interview_create(data, id) ==
    [id |-> id,
     applicationId |-> data.applicationId,
     roundNumber |-> IF data.roundNumber = NULL THEN 1 ELSE data.roundNumber,
     type |-> data.type,
     mode |-> data.mode,
     scheduledAt |-> data.scheduledAt,
     status |-> "scheduled",
     roundOutcome |-> "pending"]

\* {...existing, ...updates, id, applicationId, roundNumber, createdAt}
Interview_update(existing, updates) ==
    [existing EXCEPT
        !.scheduledAt = IF updates.hasScheduledAt THEN updates.scheduledAt ELSE @,
        !.status = IF updates.status = Absent THEN @ ELSE updates.status,
        !.roundOutcome = IF updates.roundOutcome = Absent THEN @ ELSE updates.roundOutcome]

\* the interviews of one application (their order does not matter below)
getByApplication(ivs, appId) ==
    {ivs[k] : k \in {j \in 1..Len(ivs) : ivs[j].applicationId = appId}}

Max(S) == CHOOSE x \in S : \A y \in S : y <= x

\* a next round that counts the rounds held
getNextRoundNumberByCount(ivs, appId) ==
    Cardinality(getByApplication(ivs, appId)) + 1

\* InterviewService.getNextRoundNumber (the local service only)
getNextRoundNumber(ivs, appId) ==
    LET rounds == getByApplication(ivs, appId) IN
    IF rounds = {} THEN 1
    ELSE Max({r.roundNumber : r \in rounds}) + 1

\* interviewService.getNextRoundNumber ? getNextRoundNumber(appId) : 1
\* FirebaseInterviewService defines no getNextRoundNumber
nextRoundFor(be, ivs, appId) ==
    IF be = "local" THEN getNextRoundNumber(ivs, appId) ELSE 1

\* InterviewService.update / FirebaseInterviewService.update
InterviewService_update(ivs, id, data) ==
    LET k == findIndex(ivs, id) IN
    IF k = 0 THEN [ivs |-> ivs, success |-> FALSE]
    ELSE LET merged == Interview_update(ivs[k], data) IN
         IF ~Interview_validate(merged)
         THEN [ivs |-> ivs, success |-> FALSE]
         ELSE [ivs |-> [ivs EXCEPT ![k] = merged], success |-> TRUE]

\* InterviewService.delete returns false for an unknown id;
\* FirebaseInterviewService.delete deletes the document and returns true
InterviewService_delete(be, ivs, id) ==
    LET k == findIndex(ivs, id) IN
    IF k = 0 THEN [ivs |-> ivs, success |-> (be = "firebase")]
    ELSE [ivs |-> RemoveAt(ivs, k), success |-> TRUE]

(* ----------------------- interviews in the engine --------------------- *)

IResult(apps, ivs, nid, success, ret, saves, notifies) ==
    [apps |-> apps, ivs |-> ivs, nid |-> nid, success |-> success, ret |-> ret,
     saves |-> saves, notifies |-> notifies]

\* the auto-advance range with its upper end off by one
autoAdvancesBelowFour(stage) == stage >= 1 /\ stage < 4

\* app.currentStage >= 1 && app.currentStage <= 4
autoAdvances(stage) == stage >= 1 /\ stage <= 4

\* ApplicationEngine.scheduleInterview
scheduleInterview(apps, ivs, be, nid, appId, interviewData, t) ==
    LET i == findIndex(apps, appId) IN
    IF i = 0
    THEN IResult(apps, ivs, nid, FALSE, <<"Application not found">>, 0, 0)
    ELSE LET nextRound == nextRoundFor(be, ivs, appId)
             data == [interviewData EXCEPT
                         !.applicationId = appId,
                         !.roundNumber = IF @ = NULL THEN nextRound ELSE @]
         IN IF ~Interview_validate(data)
            THEN IResult(apps, ivs, nid, FALSE, Interview_errors(data), 0, 0)
            ELSE LET interview == Interview_create(data, nid)
                     m == IF autoAdvances(apps[i].currentStage)
                          THEN moveToStage(apps, nid + 1, appId, 5, t)
                          ELSE Result(apps, nid + 1, FALSE, "null", 0, 0)
                     stopped == [m.apps EXCEPT ![i] = stopTracking(@)]
                     a == addInteraction(stopped, m.nid, appId,
                              [type |-> "interview_round",
                               notes |-> "Round " \o ToString(interview.roundNumber)
                                            \o " scheduled",
                               interviewId |-> interview.id],
                              NULL, t)
                 IN IResult(a.apps, Append(ivs, interview), a.nid, TRUE, "null",
                            m.saves + a.saves, m.notifies + a.notifies)

\* tracking started for every outcome that is given
isClearedOrAny(outcome) == outcome # ""

\* outcome === 'cleared'
isCleared(outcome) == outcome = "cleared"

\* a waiting context that names the round after the one cleared
feedbackContextNextRound(roundNumber) ==
    "feedback_round_" \o ToString(roundNumber + 1)

\* `feedback_round_${interview.roundNumber}`
feedbackContext(roundNumber) == "feedback_round_" \o ToString(roundNumber)

\* ApplicationEngine.setRoundOutcome
setRoundOutcome(apps, ivs, nid, interviewId, outcome, t) ==
    LET k == findIndex(ivs, interviewId) IN
    IF k = 0
    THEN IResult(apps, ivs, nid, FALSE, "null", 0, 0)
    ELSE LET interview == ivs[k]
             upd == InterviewService_update(ivs, interviewId,
                        [hasScheduledAt |-> FALSE, scheduledAt |-> NULL,
                         status |-> "completed",
                         roundOutcome |-> outcome])
             i == findIndex(apps, interview.applicationId)
         IN IF isCleared(outcome)
            THEN IF i # 0
                 THEN IResult([apps EXCEPT ![i] =
                                  startTracking(@, feedbackContext(interview.roundNumber),
                                                NULL, t)],
                              upd.ivs, nid, TRUE, "schedule_next_or_offer", 1, 1)
                 ELSE IResult(apps, upd.ivs, nid, TRUE, "schedule_next_or_offer", 0, 0)
            ELSE IF outcome = "not_cleared"
                 THEN IResult(apps, upd.ivs, nid, TRUE, "close_rejected", 0, 0)
                 ELSE IResult(apps, upd.ivs, nid, TRUE, "null", 0, 0)

\* ApplicationEngine.updateInterview: the interview service's update and
\* nothing else
updateInterview(apps, ivs, nid, interviewId, data) ==
    LET u == InterviewService_update(ivs, interviewId, data) IN
    IResult(apps, u.ivs, nid, u.success, "null", 0, 0)

\* ApplicationEngine.deleteInterview: the interview service's delete and
\* nothing else
deleteInterview(apps, ivs, be, nid, interviewId) ==
    LET d == InterviewService_delete(be, ivs, interviewId) IN
    IResult(apps, d.ivs, nid, d.success, "null", 0, 0)

(* ------------------------------ actions ------------------------------- *)
(* The actions drive the engine with a few inputs of each kind; the        *)
(* properties below quantify over the full input sets defined above.       *)

\* the collections stay within the bounds
WithinBounds(apps, ivs) ==
    /\ Len(apps) <= MaxApps
    /\ \A i \in 1..Len(apps) : Len(apps[i].interactions) <= MaxLog
    /\ Len(ivs) <= MaxInterviews

AppIds == {applications[i].id : i \in 1..Len(applications)}
InterviewIds == {interviews[k].id : k \in 1..Len(interviews)}

\* the ids a caller can name: those in use, and 0, which nothing has
AppIdInputs == AppIds \cup {0}
InterviewIdInputs == InterviewIds \cup {0}

\* the fields a caller passes to update: a plain field edit, a blanked
\* company name, the offer resolutions of UIController.submitResult, and a
\* stage code outside the registry
UpdateInputs ==
    {[companyName |-> "Acme", role |-> Absent, currentStage |-> NULL, finalResult |-> Absent],
     [companyName |-> " ", role |-> Absent, currentStage |-> NULL, finalResult |-> Absent],
     [companyName |-> Absent, role |-> Absent, currentStage |-> 6, finalResult |-> "accepted"],
     [companyName |-> Absent, role |-> Absent, currentStage |-> 0, finalResult |-> "declined"],
     [companyName |-> Absent, role |-> Absent, currentStage |-> InvalidStage, finalResult |-> Absent]}

\* the interview form: with or without a date/time, with or without a
\* caller-chosen round number
InterviewInputs ==
    [applicationId : {0}, scheduledAt : {NULL, 1}, type : {"technical"},
     mode : {"video"}, roundNumber : {NULL, 2}]

InterviewUpdateInputs ==
    {[hasScheduledAt |-> FALSE, scheduledAt |-> NULL, status |-> "cancelled",
      roundOutcome |-> Absent],
     [hasScheduledAt |-> TRUE, scheduledAt |-> NULL, status |-> Absent,
      roundOutcome |-> Absent]}

OutcomeInputs == {"cleared", "not_cleared", "other"}

Init ==
    /\ applications = <<>>
    /\ interviews = <<>>
    /\ backend \in {"local", "firebase"}
    /\ now = 0
    /\ nextId = 1
    /\ listeners = <<>>
    /\ io = IdleIo

\* a create that adds the application before it looks at the validation
createBeforeValidating(apps, nid, data, t) ==
    Result(Append(apps, Application_create(data, nid, t)), nid + 1,
           Application_validate(data),
           IF Application_validate(data) THEN "null" ELSE Application_errors(data),
           IF Application_validate(data) THEN 1 ELSE 0,
           IF Application_validate(data) THEN 1 ELSE 0)

\* ApplicationEngine.create; the form offers the pipeline stages 1..6, and a
\* caller may leave currentStage out
\* (id: data.id || generateId() in Application.create)
create(apps, nid, data, t) ==
    IF ~Application_validate(data)
    THEN Result(apps, nid, FALSE, Application_errors(data), 0, 0)
    ELSE LET given == suppliedId(data) IN
         Result(Append(apps, Application_create(data,
                                 IF given = NULL THEN nid ELSE given, t)),
                IF given = NULL THEN nid + 1 ELSE nid, TRUE, "null", 1, 1)

Create ==
    \E companyName \in {"Acme", " "}, stage \in (1..6) \cup {NULL} :
        LET r == create(applications, nextId,
                        [companyName |-> companyName, role |-> "Engineer",
                         currentStage |-> stage], now)
        IN /\ WithinBounds(r.apps, interviews)
           /\ applications' = r.apps
           /\ nextId' = r.nid
           /\ UNCHANGED <<interviews, backend, now, listeners, io>>

Update ==
    \E appId \in AppIdInputs, data \in UpdateInputs :
        LET r == update(applications, nextId, appId, data, now) IN
        /\ applications' = r.apps
        /\ UNCHANGED <<interviews, backend, now, nextId, listeners, io>>

MoveToStage ==
    \E appId \in AppIdInputs, newStage \in StageInputs :
        LET r == moveToStage(applications, nextId, appId, newStage, now) IN
        /\ WithinBounds(r.apps, interviews)
        /\ applications' = r.apps
        /\ nextId' = r.nid
        /\ UNCHANGED <<interviews, backend, now, listeners, io>>

CloseApplication ==
    \E appId \in AppIdInputs, reason \in {"rejected", ""} :
        LET r == closeApplication(applications, nextId, appId, reason, now) IN
        /\ WithinBounds(r.apps, interviews)
        /\ applications' = r.apps
        /\ nextId' = r.nid
        /\ UNCHANGED <<interviews, backend, now, listeners, io>>

AddInteraction ==
    \E appId \in AppIdInputs, type \in {"hr_called", "followed_up", "other"},
       newStage \in {NULL, 0, 3} :
        LET r == addInteraction(applications, nextId, appId,
                     [type |-> type, notes |-> "text", interviewId |-> NULL],
                     newStage, now)
        IN /\ WithinBounds(r.apps, interviews)
           /\ applications' = r.apps
           /\ nextId' = r.nid
           /\ UNCHANGED <<interviews, backend, now, listeners, io>>

ScheduleInterview ==
    \E appId \in AppIdInputs, data \in InterviewInputs :
        LET r == scheduleInterview(applications, interviews, backend, nextId,
                                   appId, data, now)
        IN /\ WithinBounds(r.apps, r.ivs)
           /\ applications' = r.apps
           /\ interviews' = r.ivs
           /\ nextId' = r.nid
           /\ UNCHANGED <<backend, now, listeners, io>>

SetRoundOutcome ==
    \E interviewId \in InterviewIdInputs, outcome \in OutcomeInputs :
        LET r == setRoundOutcome(applications, interviews, nextId, interviewId,
                                 outcome, now)
        IN /\ applications' = r.apps
           /\ interviews' = r.ivs
           /\ UNCHANGED <<backend, now, nextId, listeners, io>>

\* ApplicationEngine.updateInterview
UpdateInterview ==
    \E interviewId \in InterviewIdInputs, data \in InterviewUpdateInputs :
        /\ interviews' = InterviewService_update(interviews, interviewId, data).ivs
        /\ UNCHANGED <<applications, backend, now, nextId, listeners, io>>

\* ApplicationEngine.deleteInterview
DeleteInterview ==
    \E interviewId \in InterviewIdInputs :
        /\ interviews' = InterviewService_delete(backend, interviews, interviewId).ivs
        /\ UNCHANGED <<applications, backend, now, nextId, listeners, io>>

\* the wall clock advances by a day
Tick ==
    /\ now < MaxTime
    /\ now' = now + 1
    /\ UNCHANGED <<applications, interviews, backend, nextId, listeners, io>>

Next ==
    \/ Create
    \/ Update
    \/ MoveToStage
    \/ CloseApplication
    \/ AddInteraction
    \/ ScheduleInterview
    \/ SetRoundOutcome
    \/ UpdateInterview
    \/ DeleteInterview
    \/ Tick

Spec == Init /\ [][Next]_vars

(* ------------------ the local interview service alone ----------------- *)
(* Rounds are created with the number getNextRoundNumber gives, as          *)
(* scheduleInterview does, and deleted, for two applications.               *)

RoundAppIds == {1, 2}

InitRounds ==
    /\ applications = <<>>
    /\ interviews = <<>>
    /\ backend = "local"
    /\ now = 0
    /\ nextId = 1
    /\ listeners = <<>>
    /\ io = IdleIo

\* InterviewService.create with roundNumber: getNextRoundNumber(appId)
CreateRound ==
    \E appId \in RoundAppIds :
        /\ Len(interviews) < MaxRounds
        /\ nextId <= MaxRoundIds
        /\ interviews' = Append(interviews,
               Interview_create([applicationId |-> appId, scheduledAt |-> 1,
                                 type |-> "technical", mode |-> "video",
                                 roundNumber |-> getNextRoundNumber(interviews, appId)],
                                nextId))
        /\ nextId' = nextId + 1
        /\ UNCHANGED <<applications, backend, now, listeners, io>>

\* InterviewService.delete
DeleteRound ==
    \E interviewId \in InterviewIds :
        /\ interviews' = InterviewService_delete(backend, interviews, interviewId).ivs
        /\ UNCHANGED <<applications, backend, now, nextId, listeners, io>>

NextRounds ==
    \/ CreateRound
    \/ DeleteRound

SpecRounds == InitRounds /\ [][NextRounds]_vars

(* ------------------------ the follow-up cycle alone -------------------- *)
(* One application, created in stage 1, is moved in and out of Screening,  *)
(* followed up on, answered, nudged and closed while the clock runs past   *)
(* its reminder dates.                                                      *)

TrackWithinBounds(apps) ==
    \A i \in 1..Len(apps) : Len(apps[i].interactions) <= MaxTrackLog

InitFollowUp ==
    /\ applications =
          create(<<>>, 1, [companyName |-> "Acme", role |-> "Engineer",
                           currentStage |-> NULL], 0).apps
    /\ interviews = <<>>
    /\ backend = "local"
    /\ now = 0
    /\ nextId = 2
    /\ listeners = <<>>
    /\ io = IdleIo

TrackMoveToStage ==
    \E appId \in AppIds, newStage \in {3, 4} :
        LET r == moveToStage(applications, nextId, appId, newStage, now) IN
        /\ TrackWithinBounds(r.apps)
        /\ applications' = r.apps
        /\ nextId' = r.nid
        /\ UNCHANGED <<interviews, backend, now, listeners, io>>

TrackAddInteraction ==
    \E appId \in AppIds, type \in {"followed_up", "hr_called"} :
        LET r == addInteraction(applications, nextId, appId,
                     [type |-> type, notes |-> "text", interviewId |-> NULL],
                     NULL, now)
        IN /\ TrackWithinBounds(r.apps)
           /\ applications' = r.apps
           /\ nextId' = r.nid
           /\ UNCHANGED <<interviews, backend, now, listeners, io>>

TrackDismissNudge ==
    \E appId \in AppIds :
        LET r == dismissFollowUpNudge(applications, nextId, appId, now) IN
        /\ applications' = r.apps
        /\ UNCHANGED <<interviews, backend, now, nextId, listeners, io>>

\* UIController.markAsGhosted
TrackCloseAsGhosted ==
    \E appId \in AppIds :
        LET r == closeApplication(applications, nextId, appId, "ghosted", now) IN
        /\ TrackWithinBounds(r.apps)
        /\ applications' = r.apps
        /\ nextId' = r.nid
        /\ UNCHANGED <<interviews, backend, now, listeners, io>>

\* the periodic reminder check of the UI
TrackCheckReminders ==
    /\ applications' = checkFollowUpReminders(applications, now).apps
    /\ UNCHANGED <<interviews, backend, now, nextId, listeners, io>>

TrackTick ==
    /\ now < MaxTrackTime
    /\ now' = now + 1
    /\ UNCHANGED <<applications, interviews, backend, nextId, listeners, io>>

NextFollowUp ==
    \/ TrackMoveToStage
    \/ TrackAddInteraction
    \/ TrackDismissNudge
    \/ TrackCloseAsGhosted
    \/ TrackCheckReminders
    \/ TrackTick

SpecFollowUp == InitFollowUp /\ [][NextFollowUp]_vars

(* ------------------ the collection and the interview store ------------ *)
(* Applications are created, given interviews, edited, closed and deleted; *)
(* ids are handed out up to MaxIds.                                        *)

StoreWithinBounds(apps, ivs, nid) ==
    /\ Len(apps) <= MaxStoreApps
    /\ \A i \in 1..Len(apps) : Len(apps[i].interactions) <= MaxStoreLog
    /\ Len(ivs) <= MaxStoreInterviews
    /\ nid <= MaxIds + 1

\* the interactions a caller can name: those in a log, and 0, which nothing has
InteractionIdInputs ==
    UNION {{applications[i].interactions[k].id :
               k \in 1..Len(applications[i].interactions)} :
           i \in 1..Len(applications)} \cup {0}

InitStore ==
    /\ applications = <<>>
    /\ interviews = <<>>
    /\ backend \in {"local", "firebase"}
    /\ now = 0
    /\ nextId = 1
    /\ listeners = <<>>
    /\ io = IdleIo

StoreCreate ==
    \E stage \in {1, 5} :
        LET r == create(applications, nextId,
                        [companyName |-> "Acme", role |-> "Engineer",
                         currentStage |-> stage], now)
        IN /\ StoreWithinBounds(r.apps, interviews, r.nid)
           /\ applications' = r.apps
           /\ nextId' = r.nid
           /\ UNCHANGED <<interviews, backend, now, listeners, io>>

StoreScheduleInterview ==
    \E appId \in AppIdInputs :
        LET r == scheduleInterview(applications, interviews, backend, nextId, appId,
                     [applicationId |-> 0, scheduledAt |-> 1, type |-> "technical",
                      mode |-> "video", roundNumber |-> NULL], now)
        IN /\ StoreWithinBounds(r.apps, r.ivs, r.nid)
           /\ applications' = r.apps
           /\ interviews' = r.ivs
           /\ nextId' = r.nid
           /\ UNCHANGED <<backend, now, listeners, io>>

StoreSetRoundOutcome ==
    \E interviewId \in InterviewIdInputs, outcome \in {"cleared", "not_cleared"} :
        LET r == setRoundOutcome(applications, interviews, nextId, interviewId,
                                 outcome, now)
        IN /\ applications' = r.apps
           /\ interviews' = r.ivs
           /\ UNCHANGED <<backend, now, nextId, listeners, io>>

StoreCloseApplication ==
    \E appId \in AppIdInputs, reason \in {"rejected", "ghosted"} :
        LET r == closeApplication(applications, nextId, appId, reason, now) IN
        /\ StoreWithinBounds(r.apps, interviews, r.nid)
        /\ applications' = r.apps
        /\ nextId' = r.nid
        /\ UNCHANGED <<interviews, backend, now, listeners, io>>

StoreRemoveInteraction ==
    \E appId \in AppIdInputs, interactionId \in InteractionIdInputs :
        LET r == removeInteraction(applications, nextId, appId, interactionId, now) IN
        /\ applications' = r.apps
        /\ UNCHANGED <<interviews, backend, now, nextId, listeners, io>>

StoreDelete ==
    \E appId \in AppIdInputs :
        LET r == delete(applications, nextId, appId) IN
        /\ applications' = r.apps
        /\ UNCHANGED <<interviews, backend, now, nextId, listeners, io>>

StoreDeleteInterview ==
    \E interviewId \in InterviewIdInputs :
        LET r == deleteInterview(applications, interviews, backend, nextId,
                                 interviewId)
        IN /\ interviews' = r.ivs
           /\ UNCHANGED <<applications, backend, now, nextId, listeners, io>>

\* the texts a caller imports: the engine's own export, an empty array, a
\* JSON object and a text that is not JSON
ImportKinds == {"export", "empty", "object", "invalid"}

ImportText(kind, apps) ==
    CASE kind = "export" -> exportData(apps)
      [] kind = "empty" -> JArr(<<>>)
      [] kind = "object" -> JObj([version |-> JNum(1)])
      [] OTHER -> NotJSON

StoreImportData ==
    \E kind \in ImportKinds, merge \in BOOLEAN :
        LET r == importData(applications, nextId, ImportText(kind, applications),
                            merge)
        IN /\ applications' = r.apps
           /\ UNCHANGED <<interviews, backend, now, nextId, listeners, io>>

StoreTick ==
    /\ now < MaxStoreTime
    /\ now' = now + 1
    /\ UNCHANGED <<applications, interviews, backend, nextId, listeners, io>>

NextStore ==
    \/ StoreCreate
    \/ StoreScheduleInterview
    \/ StoreSetRoundOutcome
    \/ StoreCloseApplication
    \/ StoreRemoveInteraction
    \/ StoreDelete
    \/ StoreDeleteInterview
    \/ StoreImportData
    \/ StoreTick

SpecStore == InitStore /\ [][NextStore]_vars

(* ----------------- operations in progress and subscribers ------------- *)
(* An engine method runs its synchronous part when it is called: it        *)
(* changes the collection and hands its writes to the storage service. A   *)
(* write to the local storage service is complete at once; a write to      *)
(* Firestore is in flight until it settles. What follows an awaited write  *)
(* (notify, then the return) runs once the write has settled.              *)

Callbacks == 1..MaxCallbacks

\* the even-numbered callbacks throw whenever they are called
Throws(cb) == cb % 2 = 0

\* Set.prototype.add
subscribe(ls, cb) ==
    IF \E k \in 1..Len(ls) : ls[k] = cb THEN ls ELSE Append(ls, cb)

\* Set.prototype.delete
unsubscribe(ls, cb) == SelectSeq(ls, LAMBDA x : x # cb)

\* a callback whose exception leaves the loop
callbackEscapesWhenThrown(cb) == Throws(cb)

\* try { callback(); } catch (error) { console.error(...) }: nothing a
\* callback throws leaves the loop
callbackEscapes(cb) == FALSE

\* ApplicationEngine.notify: how often each listener is called, and whether
\* an exception leaves notify
notify(ls) ==
    LET escaping == {k \in 1..Len(ls) : callbackEscapes(ls[k])}
        stop == IF escaping = {} THEN 0
                ELSE CHOOSE k \in escaping : \A j \in escaping : k <= j
    IN [calls |-> [k \in 1..Len(ls) |-> IF stop = 0 \/ k <= stop THEN 1 ELSE 0],
        threw |-> stop # 0]

\* one more notification in the record of the operation
Notified(rec, ls) ==
    [rec EXCEPT !.notified = @ + 1,
                !.calls = [k \in 1..Len(ls) |-> @[k] + notify(ls).calls[k]]]

\* a write handed to the storage service: StorageService.save has written
\* when it returns, the Firestore calls return a promise
Write(be, awaited, notifies) ==
    [state |-> IF be = "local" THEN "written" ELSE "inflight",
     awaited |-> awaited, notifies |-> notifies, continued |-> FALSE]

\* this.save() called without await and with nothing chained on its promise
DetachedWrite(be) == [Write(be, FALSE, FALSE) EXCEPT !.continued = TRUE]

Called(op, status, success, writes, ls) ==
    [op |-> op, status |-> status, success |-> success, writes |-> writes,
     notified |-> 0, calls |-> [k \in 1..Len(ls) |-> 0]]

\* create, update, delete, addInteraction, removeInteraction, moveToStage and
\* closeApplication: await the write, then notify, then return
Awaiting(op, r, be, ls) ==
    IF r.success
    THEN Called(op, "pending", TRUE, <<Write(be, TRUE, TRUE)>>, ls)
    ELSE Called(op, "resolved", FALSE, <<>>, ls)

\* scheduleInterview: moveToStage and addInteraction are called and left to
\* run; the method returns the interview service's result
Nesting(op, r, be, ls) ==
    Called(op, "resolved", r.success,
           [k \in 1..r.saves |-> Write(be, FALSE, TRUE)], ls)

\* setRoundOutcome and importData: this.save(); this.notify(); return
Detaching(op, r, be, ls) ==
    LET called == Called(op, "resolved", r.success,
                         [k \in 1..r.saves |-> DetachedWrite(be)], ls)
        told == IF r.notifies > 0 THEN Notified(called, ls) ELSE called
    IN IF r.notifies > 0 /\ notify(ls).threw
       THEN [told EXCEPT !.status = "rejected"]
       ELSE told

\* no write of the operation is in flight or waits to be continued
Quiescent(rec) ==
    \A k \in 1..Len(rec.writes) :
        rec.writes[k].state # "inflight" /\ rec.writes[k].continued

IoWithinBounds(apps, ivs, nid) ==
    /\ Len(apps) <= MaxIoApps
    /\ \A i \in 1..Len(apps) : Len(apps[i].interactions) <= MaxIoLog
    /\ Len(ivs) <= MaxIoInterviews
    /\ nid <= MaxIoIds + 1

\* the engine after UIController.init: its render callback is subscribed
InitIo ==
    /\ applications = <<>>
    /\ interviews = <<>>
    /\ backend \in {"local", "firebase"}
    /\ now = 0
    /\ nextId = 1
    /\ listeners = subscribe(<<>>, 1)
    /\ io = IdleIo

Subscribe ==
    \E cb \in Callbacks :
        /\ io.status = "idle"
        /\ listeners' = subscribe(listeners, cb)
        /\ UNCHANGED <<applications, interviews, backend, now, nextId, io>>

Unsubscribe ==
    \E cb \in Callbacks :
        /\ io.status = "idle"
        /\ listeners' = unsubscribe(listeners, cb)
        /\ UNCHANGED <<applications, interviews, backend, now, nextId, io>>

IoCreate ==
    \E companyName \in {"Acme", " "} :
        LET r == create(applications, nextId,
                        [companyName |-> companyName, role |-> "Engineer",
                         currentStage |-> NULL], now)
        IN /\ io.status = "idle"
           /\ IoWithinBounds(r.apps, interviews, r.nid)
           /\ applications' = r.apps
           /\ nextId' = r.nid
           /\ io' = Awaiting("create", r, backend, listeners)
           /\ UNCHANGED <<interviews, backend, now, listeners>>

IoUpdate ==
    \E appId \in AppIdInputs, companyName \in {"Acme", " "} :
        LET r == update(applications, nextId, appId,
                        [NoFields EXCEPT !.companyName = companyName], now)
        IN /\ io.status = "idle"
           /\ applications' = r.apps
           /\ io' = Awaiting("update", r, backend, listeners)
           /\ UNCHANGED <<interviews, backend, now, nextId, listeners>>

IoDelete ==
    \E appId \in AppIdInputs :
        LET r == delete(applications, nextId, appId) IN
        /\ io.status = "idle"
        /\ applications' = r.apps
        /\ io' = Awaiting("delete", r, backend, listeners)
        /\ UNCHANGED <<interviews, backend, now, nextId, listeners>>

IoAddInteraction ==
    \E appId \in AppIdInputs :
        LET r == addInteraction(applications, nextId, appId,
                     [type |-> "note", notes |-> "text", interviewId |-> NULL],
                     NULL, now)
        IN /\ io.status = "idle"
           /\ IoWithinBounds(r.apps, interviews, r.nid)
           /\ applications' = r.apps
           /\ nextId' = r.nid
           /\ io' = Awaiting("addInteraction", r, backend, listeners)
           /\ UNCHANGED <<interviews, backend, now, listeners>>

IoRemoveInteraction ==
    \E appId \in AppIdInputs, interactionId \in InteractionIdInputs :
        LET r == removeInteraction(applications, nextId, appId, interactionId, now) IN
        /\ io.status = "idle"
        /\ applications' = r.apps
        /\ io' = Awaiting("removeInteraction", r, backend, listeners)
        /\ UNCHANGED <<interviews, backend, now, nextId, listeners>>

IoMoveToStage ==
    \E appId \in AppIdInputs, newStage \in {1, 3} :
        LET r == moveToStage(applications, nextId, appId, newStage, now) IN
        /\ io.status = "idle"
        /\ IoWithinBounds(r.apps, interviews, r.nid)
        /\ applications' = r.apps
        /\ nextId' = r.nid
        /\ io' = Awaiting("moveToStage", r, backend, listeners)
        /\ UNCHANGED <<interviews, backend, now, listeners>>

IoCloseApplication ==
    \E appId \in AppIdInputs :
        LET r == closeApplication(applications, nextId, appId, "rejected", now) IN
        /\ io.status = "idle"
        /\ IoWithinBounds(r.apps, interviews, r.nid)
        /\ applications' = r.apps
        /\ nextId' = r.nid
        /\ io' = Awaiting("closeApplication", r, backend, listeners)
        /\ UNCHANGED <<interviews, backend, now, listeners>>

IoScheduleInterview ==
    \E appId \in AppIdInputs, scheduledAt \in {NULL, 1} :
        LET r == scheduleInterview(applications, interviews, backend, nextId, appId,
                     [applicationId |-> 0, scheduledAt |-> scheduledAt,
                      type |-> "technical", mode |-> "video",
                      roundNumber |-> NULL], now)
        IN /\ io.status = "idle"
           /\ IoWithinBounds(r.apps, r.ivs, r.nid)
           /\ applications' = r.apps
           /\ interviews' = r.ivs
           /\ nextId' = r.nid
           /\ io' = Nesting("scheduleInterview", r, backend, listeners)
           /\ UNCHANGED <<backend, now, listeners>>

IoSetRoundOutcome ==
    \E interviewId \in InterviewIdInputs, outcome \in {"cleared", "not_cleared"} :
        LET r == setRoundOutcome(applications, interviews, nextId, interviewId,
                                 outcome, now)
        IN /\ io.status = "idle"
           /\ applications' = r.apps
           /\ interviews' = r.ivs
           /\ io' = Detaching("setRoundOutcome", r, backend, listeners)
           /\ UNCHANGED <<backend, now, nextId, listeners>>

IoUpdateInterview ==
    \E interviewId \in InterviewIdInputs :
        LET r == updateInterview(applications, interviews, nextId, interviewId,
                     [hasScheduledAt |-> FALSE, scheduledAt |-> NULL,
                      status |-> "cancelled", roundOutcome |-> Absent])
        IN /\ io.status = "idle"
           /\ interviews' = r.ivs
           /\ io' = Detaching("updateInterview", r, backend, listeners)
           /\ UNCHANGED <<applications, backend, now, nextId, listeners>>

IoDeleteInterview ==
    \E interviewId \in InterviewIdInputs :
        LET r == deleteInterview(applications, interviews, backend, nextId,
                                 interviewId)
        IN /\ io.status = "idle"
           /\ interviews' = r.ivs
           /\ io' = Detaching("deleteInterview", r, backend, listeners)
           /\ UNCHANGED <<applications, backend, now, nextId, listeners>>

IoImportData ==
    \E kind \in ImportKinds :
        LET r == importData(applications, nextId, ImportText(kind, applications),
                            FALSE)
        IN /\ io.status = "idle"
           /\ applications' = r.apps
           /\ io' = Detaching("importData", r, backend, listeners)
           /\ UNCHANGED <<interviews, backend, now, nextId, listeners>>

\* a write to Firestore settles: the promise of setDoc / deleteDoc /
\* batch.commit is fulfilled or rejected
WriteSettles ==
    \E k \in 1..Len(io.writes), ok \in BOOLEAN :
        /\ io.writes[k].state = "inflight"
        /\ io' = [io EXCEPT !.writes[k].state = IF ok THEN "written" ELSE "failed"]
        /\ UNCHANGED <<applications, interviews, backend, now, nextId, listeners>>

\* the method that waits on a settled write resumes: after a write that
\* succeeded it notifies and returns, after a write that failed it throws
Continue ==
    \E k \in 1..Len(io.writes) :
        LET w == io.writes[k]
            marked == [io EXCEPT !.writes[k].continued = TRUE]
            told == IF w.notifies THEN Notified(marked, listeners) ELSE marked
        IN /\ w.state # "inflight"
           /\ ~w.continued
           /\ io' = IF w.state = "failed"
                    THEN IF w.awaited
                         THEN [marked EXCEPT !.status = "rejected"]
                         ELSE marked
                    ELSE IF w.awaited
                         THEN [told EXCEPT !.status =
                                  IF w.notifies /\ notify(listeners).threw
                                  THEN "rejected" ELSE "resolved"]
                         ELSE told
           /\ UNCHANGED <<applications, interviews, backend, now, nextId, listeners>>

\* the caller has the outcome of the operation and nothing of it is left to run
Settled ==
    /\ io.status \in {"resolved", "rejected"}
    /\ Quiescent(io)
    /\ io' = IdleIo
    /\ UNCHANGED <<applications, interviews, backend, now, nextId, listeners>>

NextIo ==
    \/ IoCreate
    \/ IoUpdate
    \/ IoDelete
    \/ IoAddInteraction
    \/ IoRemoveInteraction
    \/ IoMoveToStage
    \/ IoCloseApplication
    \/ IoScheduleInterview
    \/ IoSetRoundOutcome
    \/ IoUpdateInterview
    \/ IoDeleteInterview
    \/ IoImportData
    \/ WriteSettles
    \/ Continue
    \/ Settled

SpecIo == InitIo /\ [][NextIo]_vars

(* ------------------------ subscribers and notify ---------------------- *)
(* One application is in the collection, kept in local storage; callbacks  *)
(* subscribe and unsubscribe between the operations.                       *)

InitNotify ==
    /\ applications = create(<<>>, 1, [companyName |-> "Acme", role |-> "Engineer",
                                       currentStage |-> NULL], 0).apps
    /\ interviews = <<>>
    /\ backend = "local"
    /\ now = 0
    /\ nextId = 2
    /\ listeners = <<>>
    /\ io = IdleIo

NextNotify ==
    \/ Subscribe
    \/ Unsubscribe
    \/ IoUpdate
    \/ IoMoveToStage
    \/ IoScheduleInterview
    \/ IoSetRoundOutcome
    \/ IoImportData
    \/ Continue
    \/ Settled

SpecNotify == InitNotify /\ [][NextNotify]_vars

(* ------------------------------ analytics ----------------------------- *)

\* applications.filter(a => a.currentStage === stage).length
CountAtStage(apps, stage) ==
    Cardinality({i \in 1..Len(apps) : apps[i].currentStage = stage})

\* applications.filter(a => results.includes(a.finalResult)).length
CountWithResult(apps, results) ==
    Cardinality({i \in 1..Len(apps) : apps[i].finalResult \in results})

\* AnalyticsService.computeByStage: one entry for each stage of STAGE_ORDER
computeByStage(apps) ==
    [k \in 1..Len(STAGE_ORDER) |->
        [stage |-> STAGE_ORDER[k],
         count |-> CountAtStage(apps, STAGE_ORDER[k])]]

\* the counts object of computeByResult: results without a key in it are
\* not counted
ResultBuckets == {"inprogress", "offered", "accepted", "rejected", "declined", "ghosted"}

\* AnalyticsService.computeByResult: the buckets whose count is positive
computeByResult(apps) ==
    LET count(b) == IF b = "inprogress"
                    THEN CountWithResult(apps, {""})
                    ELSE CountWithResult(apps, {b})
    IN [b \in {c \in ResultBuckets : count(c) > 0} |-> count(b)]

\* a percentage that drops the fraction
roundedPercentDown(part, whole) == (100 * part) \div whole

\* Math.round((part / whole) * 100): the nearest integer, a half rounded up
roundedPercent(part, whole) == (200 * part + whole) \div (2 * whole)

\* AnalyticsService.computeSuccessRate
computeSuccessRate(apps) ==
    LET completed == Len(apps) - CountWithResult(apps, {""})
        successful == CountWithResult(apps, {"offered", "accepted"})
    IN IF completed = 0 THEN 0 ELSE roundedPercent(successful, completed)

\* AnalyticsService.computeResponseRate
computeResponseRate(apps) ==
    LET withResult == Len(apps) - CountWithResult(apps, {""})
        gotResponse == withResult - CountWithResult(apps, {"ghosted"})
    IN IF withResult = 0 THEN 0 ELSE roundedPercent(gotResponse, withResult)

\* AnalyticsService.compute, without the timeline
compute(apps) ==
    [total |-> Len(apps),
     active |-> Len(apps) - CountAtStage(apps, 0),
     closed |-> CountAtStage(apps, 0),
     byStage |-> computeByStage(apps),
     byResult |-> computeByResult(apps),
     successRate |-> computeSuccessRate(apps),
     responseRate |-> computeResponseRate(apps)]

\* the stage and result of an application as the engine leaves them: in
\* progress, closed with a reason, an offer accepted or declined; 'offered'
\* comes in with imported data
StoredKinds ==
    {[stage |-> 1, result |-> ""], [stage |-> 5, result |-> ""]}
        \cup {[stage |-> 0, result |-> r] : r \in CLOSE_REASONS}
        \cup {[stage |-> 6, result |-> "accepted"], [stage |-> 6, result |-> "offered"]}

Stored(kind, id) ==
    [Application_create([companyName |-> "Acme", role |-> "Engineer",
                         currentStage |-> kind.stage], id, 0)
        EXCEPT !.finalResult = kind.result]

\* the engine after init() has loaded a collection from storage
InitAnalytics ==
    /\ \E n \in 0..MaxAnalyticsApps :
          \E kinds \in [1..n -> StoredKinds] :
              applications = [i \in 1..n |-> Stored(kinds[i], i)]
    /\ interviews = <<>>
    /\ backend = "local"
    /\ now = 0
    /\ nextId = MaxAnalyticsApps + 1
    /\ listeners = <<>>
    /\ io = IdleIo

\* ApplicationEngine.getAnalytics
GetAnalytics ==
    /\ io' = [op |-> "getAnalytics", status |-> "resolved", success |-> TRUE,
              writes |-> <<>>, notified |-> 0, calls |-> <<>>,
              value |-> compute(applications)]
    /\ UNCHANGED <<applications, interviews, backend, now, nextId, listeners>>

NextAnalytics == GetAnalytics

SpecAnalytics == InitAnalytics /\ [][NextAnalytics]_vars

(* ----------------------------- properties ----------------------------- *)

AppAt(apps, appId) == apps[findIndex(apps, appId)]
Last(seq) == seq[Len(seq)]
\* the entries a call appended to a log
Appended(before, after) == SubSeq(after, Len(before) + 1, Len(after))

\* C1 (as stated): in every reachable state each application's currentStage
\* is one of the seven registered stage codes 0..6.
C1_StageInRegistry ==
    \A i \in 1..Len(applications) :
        applications[i].currentStage \in DOMAIN STAGES

\* C2 (as stated): once an application is in stage 0 (Closed), no operation
\* brings its currentStage back to a non-zero value.
C2_ClosedIsTerminal ==
    [][\A i \in 1..Len(applications) : \A j \in 1..Len(applications') :
          (/\ applications'[j].id = applications[i].id
           /\ applications[i].currentStage = 0)
          => applications'[j].currentStage = 0]_vars

\* C3 (as stated): an application whose currentStage is 0 has a non-empty
\* finalResult, whichever operation put it in stage 0.
C3_ClosedHasResult ==
    \A i \in 1..Len(applications) :
        applications[i].currentStage = 0 => applications[i].finalResult # ""

\* C4: moveToStage(appId, s) on an application already in stage s reports
\* failure with a null action and changes nothing: no interaction is
\* appended, lastUpdated and the tracker are unchanged, no id is drawn, and
\* neither a persistence call nor a notification is made.
C4_SameStageNoOp ==
    \A appId \in AppIds :
        moveToStage(applications, nextId, appId,
                    AppAt(applications, appId).currentStage, now)
            = Result(applications, nextId, FALSE, "null", 0, 0)

\* an application with a running tracker, a non-empty log and a lastUpdated
\* older than the clock: a repeated move would show in each of them
C4_Witness ==
    \E i \in 1..Len(applications) :
        /\ applications[i].followUpTracker.isActive
        /\ Len(applications[i].interactions) > 0
        /\ applications[i].lastUpdated < now

\* C5: closeApplication(appId, reason) on an existing application succeeds
\* and leaves it in stage 0 with finalResult = reason, the tracker inactive
\* with nextReminderAt null, and exactly one closure interaction appended.
C5_CloseApplication ==
    \A appId \in AppIds : \A reason \in ReasonInputs :
        LET r == closeApplication(applications, nextId, appId, reason, now)
            old == AppAt(applications, appId)
            new == AppAt(r.apps, appId)
            added == Appended(old.interactions, new.interactions)
        IN /\ r.success
           /\ new.currentStage = 0
           /\ new.finalResult = reason
           /\ ~new.followUpTracker.isActive
           /\ new.followUpTracker.nextReminderAt = NULL
           /\ SubSeq(new.interactions, 1, Len(old.interactions)) = old.interactions
           /\ Len(added) = 1
           /\ added[1].notes = ClosedNoteText

\* an application closed as rejected while its screening tracker was running
C5_Witness ==
    \E i \in 1..Len(applications) :
        /\ applications[i].currentStage = 0
        /\ applications[i].finalResult = "rejected"
        /\ applications[i].followUpTracker.waitingContext = "screening"
        /\ ~applications[i].followUpTracker.isActive
        /\ Len(applications[i].interactions) = 2
        /\ Last(applications[i].interactions).notes = ClosedNoteText

\* the action each stage asks of the UI, as the specification lists them
ExpectedAction(s) ==
    CASE s = 2 -> "prompt_details"
      [] s = 3 -> "start_followup"
      [] s = 5 -> "schedule_interview"
      [] s = 6 -> "prompt_result"
      [] s = 0 -> "prompt_close_reason"
      [] OTHER -> "null"

\* C6: a successful moveToStage(appId, newStage) to a registered stage
\* returns the action of the target stage: null for 1 and 4, prompt_details
\* for 2, start_followup for 3, schedule_interview for 5, prompt_result for
\* 6 and prompt_close_reason for 0, whatever the prior stage.
C6_MoveReturnsStageAction ==
    \A appId \in AppIds : \A newStage \in DOMAIN STAGES :
        LET r == moveToStage(applications, nextId, appId, newStage, now)
        IN /\ r.success <=> AppAt(applications, appId).currentStage # newStage
           /\ r.success => r.ret = ExpectedAction(newStage)

\* an application moved twice, the second time to the Offer stage
C6_Witness ==
    \E i \in 1..Len(applications) :
        /\ applications[i].currentStage = 6
        /\ Len(applications[i].interactions) = 2
        /\ \A k \in 1..2 : applications[i].interactions[k].notes = StageNoteText

\* C7: a moveToStage(appId, 3) from any other stage succeeds and leaves the
\* tracker active with attempts 0, lastFollowUpAt null, waitingContext
\* 'screening' and nextReminderAt three days after the time of the move.
C7_ScreeningStartsTracking ==
    \A appId \in AppIds :
        AppAt(applications, appId).currentStage # 3 =>
            LET r == moveToStage(applications, nextId, appId, 3, now)
                tr == AppAt(r.apps, appId).followUpTracker
            IN /\ r.success
               /\ tr.isActive
               /\ tr.attempts = 0
               /\ tr.lastFollowUpAt = NULL
               /\ tr.waitingContext = "screening"
               /\ tr.nextReminderAt = now + 3

\* an application moved into Screening on day 1, reminder due on day 4
C7_Witness ==
    \E i \in 1..Len(applications) :
        /\ applications[i].currentStage = 3
        /\ applications[i].lastUpdated = 1
        /\ Len(applications[i].interactions) > 0
        /\ Last(applications[i].interactions).notes = StageNoteText
        /\ applications[i].followUpTracker.isActive
        /\ applications[i].followUpTracker.waitingContext = "screening"
        /\ applications[i].followUpTracker.nextReminderAt = 4

\* C8: a moveToStage from stage 3 to any other stage succeeds and leaves the
\* tracker inactive with nextReminderAt null; checkReminders does not report
\* the application at any later time.
C8_LeavingScreeningStopsTracking ==
    \A appId \in AppIds : \A newStage \in StageInputs \ {3} :
        AppAt(applications, appId).currentStage = 3 =>
            LET r == moveToStage(applications, nextId, appId, newStage, now)
                tr == AppAt(r.apps, appId).followUpTracker
            IN /\ r.success
               /\ ~tr.isActive
               /\ tr.nextReminderAt = NULL
               /\ \A t \in now..(now + 2 * FOLLOWUP_DEFAULTS.subsequentWaitDays) :
                      appId \notin checkReminders(r.apps, t)

\* an application moved into Screening and out again: the tracker it started
\* is stopped
C8_Witness ==
    \E i \in 1..Len(applications) :
        /\ applications[i].currentStage # 3
        /\ Len(applications[i].interactions) = 2
        /\ \A k \in 1..2 : applications[i].interactions[k].notes = StageNoteText
        /\ applications[i].followUpTracker.waitingContext = "screening"
        /\ ~applications[i].followUpTracker.isActive
        /\ applications[i].followUpTracker.nextReminderAt = NULL

\* what a successful scheduleInterview leaves behind, for an application in
\* any stage; givenRoundKept says whether the first interview of an
\* application in stage 1 carries the roundNumber of interviewData, when
\* there is one, or roundNumber 1 whatever interviewData holds
ScheduleEffects(givenRoundKept) ==
    \A appId \in AppIds : \A data \in InterviewInputs :
        LET r == scheduleInterview(applications, interviews, backend, nextId,
                                   appId, data, now)
            old == AppAt(applications, appId)
            new == AppAt(r.apps, appId)
            added == Appended(old.interactions, new.interactions)
            rounds == {k \in 1..Len(added) : added[k].type = "interview_round"}
            moves == {k \in 1..Len(added) : added[k].notes = StageNoteText}
            iv == Last(r.ivs)
        IN r.success =>
            /\ Len(r.ivs) = Len(interviews) + 1
            /\ Cardinality(rounds) = 1
            /\ \A k \in rounds : added[k].interviewId = iv.id
            /\ ~new.followUpTracker.isActive
            /\ old.currentStage \in 1..4 =>
                   new.currentStage = 5 /\ Cardinality(moves) = 1
            /\ old.currentStage \notin 1..4 =>
                   new.currentStage = old.currentStage /\ moves = {}
            /\ (old.currentStage = 1 /\ getByApplication(interviews, appId) = {}) =>
                   /\ getByApplication(r.ivs, appId) = {iv}
                   /\ iv.roundNumber =
                          IF givenRoundKept /\ data.roundNumber # NULL
                          THEN data.roundNumber ELSE 1

C10_RoundsDistinctAndIncreasing ==
    /\ \A k1, k2 \in 1..Len(interviews) :
          (k1 # k2 /\ interviews[k1].applicationId = interviews[k2].applicationId)
          => interviews[k1].roundNumber # interviews[k2].roundNumber
    /\ \A appId \in AppIds : \A data \in InterviewInputs :
          LET r == scheduleInterview(applications, interviews, backend, nextId,
                                     appId, data, now)
          IN r.success =>
                \A iv \in getByApplication(interviews, appId) :
                    Last(r.ivs).roundNumber > iv.roundNumber

RoundsOf(appId) ==
    {interviews[k].roundNumber :
        k \in {j \in 1..Len(interviews) : interviews[j].applicationId = appId}}

\* C11: getNextRoundNumber(appId) is 1 when the application has no interviews
\* and otherwise one more than the greatest round number it holds: gaps are
\* not filled, and the interviews of other applications do not count.
C11_NextRoundIsMaxPlusOne ==
    \A appId \in RoundAppIds :
        LET n == getNextRoundNumber(interviews, appId)
            mine == SelectSeq(interviews, LAMBDA iv : iv.applicationId = appId)
        IN /\ RoundsOf(appId) = {} => n = 1
           /\ RoundsOf(appId) # {} =>
                 /\ n - 1 \in RoundsOf(appId)
                 /\ \A r \in RoundsOf(appId) : r < n
           /\ n = getNextRoundNumber(mine, appId)

\* application 1 holds rounds 1, 2 and 4 (round 3 was deleted) while
\* application 2 holds a round of its own
C11_Witness ==
    /\ RoundsOf(1) = {1, 2, 4}
    /\ RoundsOf(2) # {}
    /\ getNextRoundNumber(interviews, 1) = 5

InterviewAt(ivs, interviewId) == ivs[findIndex(ivs, interviewId)]

\* C12: setRoundOutcome(interviewId, 'not_cleared') on an existing interview
\* succeeds with suggestedAction 'close_rejected', marks the interview
\* completed with roundOutcome not_cleared, and leaves every application
\* unchanged (stage, finalResult, tracker, interactions).
C12_NotClearedLeavesApplication ==
    \A interviewId \in InterviewIds :
        LET r == setRoundOutcome(applications, interviews, nextId, interviewId,
                                 "not_cleared", now)
            iv == InterviewAt(r.ivs, interviewId)
        IN /\ r.success
           /\ r.ret = "close_rejected"
           /\ iv.status = "completed"
           /\ iv.roundOutcome = "not_cleared"
           /\ r.apps = applications
           /\ r.nid = nextId

\* a round marked not cleared while its application sits in Interviewing
\* with the interview_round entry as the last one in its log
C12_Witness ==
    \E k \in 1..Len(interviews) : \E i \in 1..Len(applications) :
        /\ interviews[k].status = "completed"
        /\ interviews[k].roundOutcome = "not_cleared"
        /\ applications[i].id = interviews[k].applicationId
        /\ applications[i].currentStage = 5
        /\ applications[i].finalResult = ""
        /\ ~applications[i].followUpTracker.isActive
        /\ Len(applications[i].interactions) > 0
        /\ Last(applications[i].interactions).type = "interview_round"

\* C13: setRoundOutcome(interviewId, 'cleared') on an existing interview of
\* round N whose application exists marks the interview completed with
\* roundOutcome cleared, starts tracking on the application with
\* waitingContext 'feedback_round_N' (active, attempts 0), returns
\* suggestedAction 'schedule_next_or_offer' and leaves currentStage as it was.
C13_ClearedStartsTracking ==
    \A interviewId \in InterviewIds :
        LET old == InterviewAt(interviews, interviewId) IN
        old.applicationId \in AppIds =>
            LET r == setRoundOutcome(applications, interviews, nextId, interviewId,
                                     "cleared", now)
                iv == InterviewAt(r.ivs, interviewId)
                app == AppAt(r.apps, old.applicationId)
            IN /\ r.success
               /\ r.ret = "schedule_next_or_offer"
               /\ iv.status = "completed"
               /\ iv.roundOutcome = "cleared"
               /\ app.followUpTracker.isActive
               /\ app.followUpTracker.attempts = 0
               /\ app.followUpTracker.waitingContext =
                      "feedback_round_" \o ToString(old.roundNumber)
               /\ app.currentStage = AppAt(applications, old.applicationId).currentStage

\* round 2 of an application was cleared: the application waits for its
\* feedback, in the stage it was in
C13_Witness ==
    \E k \in 1..Len(interviews) : \E i \in 1..Len(applications) :
        /\ interviews[k].roundNumber = 2
        /\ interviews[k].status = "completed"
        /\ interviews[k].roundOutcome = "cleared"
        /\ applications[i].id = interviews[k].applicationId
        /\ applications[i].followUpTracker.isActive
        /\ applications[i].followUpTracker.waitingContext = "feedback_round_2"
        /\ applications[i].currentStage = 5

RECURSIVE recordFollowUpTimes(_, _, _)
\* n consecutive recordFollowUp calls on one application
recordFollowUpTimes(app, n, t) ==
    IF n = 0 THEN app ELSE recordFollowUp(recordFollowUpTimes(app, n - 1, t), t)

\* C14: from a tracker with attempts = 0, N consecutive recordFollowUp calls
\* leave attempts exactly N, and the N-th call returns isGhostCandidate true
\* exactly when N >= 3.
C14_FollowUpsCountToGhost ==
    \A i \in 1..Len(applications) :
        applications[i].followUpTracker.attempts = 0 =>
            \A n \in 1..MaxCalls :
                LET before == recordFollowUpTimes(applications[i], n - 1, now)
                    res == recordFollowUpResult(before, now)
                IN /\ recordFollowUpTimes(applications[i], n, now)
                          .followUpTracker.attempts = n
                   /\ res.attempts = n
                   /\ res.isGhostCandidate <=> n >= 3

\* three follow-ups in a row were logged on a running tracker
C14_Witness ==
    \E i \in 1..Len(applications) :
        LET log == applications[i].interactions IN
        /\ applications[i].followUpTracker.isActive
        /\ applications[i].followUpTracker.attempts = 3
        /\ Len(log) >= 3
        /\ \A k \in (Len(log) - 2)..Len(log) : log[k].type = "followed_up"

\* C15: recordHRResponse sets attempts to 0 and lastFollowUpAt to null from
\* any tracker state and leaves isActive, waitingContext, nextReminderAt and
\* hrDeadlineDays as they were.
C15_HRResponseResetsAttempts ==
    \A i \in 1..Len(applications) :
        LET old == applications[i].followUpTracker
            new == recordHRResponse(applications[i]).followUpTracker
        IN /\ new.attempts = 0
           /\ new.lastFollowUpAt = NULL
           /\ new.isActive = old.isActive
           /\ new.waitingContext = old.waitingContext
           /\ new.nextReminderAt = old.nextReminderAt
           /\ new.hrDeadlineDays = old.hrDeadlineDays

\* an HR call logged right after a follow-up: the attempts are back to 0 and
\* the tracker still runs towards its reminder date
C15_Witness ==
    \E i \in 1..Len(applications) :
        LET log == applications[i].interactions IN
        /\ Len(log) >= 2
        /\ log[Len(log) - 1].type = "followed_up"
        /\ log[Len(log)].type = "hr_called"
        /\ applications[i].followUpTracker.isActive
        /\ applications[i].followUpTracker.attempts = 0
        /\ applications[i].followUpTracker.lastFollowUpAt = NULL
        /\ applications[i].followUpTracker.nextReminderAt # NULL

\* C16: addInteraction resets attempts to 0 for type hr_called or
\* document_received; for type followed_up it adds exactly 1 to attempts and
\* sets nextReminderAt = now + 5 days when the tracker is active and leaves
\* the tracker untouched when it is not; types note and interview_round
\* never change the tracker.
C16_InteractionTypeEffects ==
    \A appId \in AppIds : \A type \in TypeInputs :
    \A newStage \in StageInputs \cup {NULL} :
        LET r == addInteraction(applications, nextId, appId,
                     [type |-> type, notes |-> "text", interviewId |-> NULL],
                     newStage, now)
            old == AppAt(applications, appId).followUpTracker
            new == AppAt(r.apps, appId).followUpTracker
        IN /\ r.success
           /\ type \in {"hr_called", "document_received"} => new.attempts = 0
           /\ (type = "followed_up" /\ old.isActive) =>
                  /\ new.attempts = old.attempts + 1
                  /\ new.nextReminderAt = now + 5
           /\ (type = "followed_up" /\ ~old.isActive) => new = old
           /\ type \in {"note", "interview_round"} => new = old

\* a follow-up logged while the tracker was not running: the tracker still
\* shows no attempt
C16_Witness ==
    \E i \in 1..Len(applications) :
        LET log == applications[i].interactions IN
        /\ Len(log) >= 1
        /\ log[Len(log)].type = "followed_up"
        /\ ~applications[i].followUpTracker.isActive
        /\ applications[i].followUpTracker.attempts = 0
        /\ applications[i].followUpTracker.lastFollowUpAt = NULL

\* the entries of the reminder list at clock value t that name appId
RemindersFor(apps, appId, t) ==
    LET list == reminderList(apps, t)
    IN {list[k] : k \in {j \in 1..Len(list) : list[j].appId = appId}}

\* C17: for an application in stage 3 with an active tracker and attempts 2,
\* logging a followed_up interaction makes attempts 3; with no further
\* operation on it, every checkReminders call at or after the new
\* nextReminderAt reports it with isGhostCandidate true, and no call before
\* nextReminderAt reports it.
C17_ThirdFollowUpFlagsGhost ==
    \A appId \in AppIds :
        LET old == AppAt(applications, appId) IN
        (/\ old.currentStage = 3
         /\ old.followUpTracker.isActive
         /\ old.followUpTracker.attempts = 2) =>
            LET r == addInteraction(applications, nextId, appId,
                         [type |-> "followed_up", notes |-> "text",
                          interviewId |-> NULL], NULL, now)
                new == AppAt(r.apps, appId).followUpTracker
            IN /\ new.attempts = 3
               /\ new.nextReminderAt # NULL
               /\ \A t \in now..(now + Horizon) :
                      LET mine == RemindersFor(r.apps, appId, t) IN
                      /\ t >= new.nextReminderAt =>
                             /\ Cardinality(mine) = 1
                             /\ \A rem \in mine : rem.isGhostCandidate
                      /\ t < new.nextReminderAt => mine = {}

\* the third follow-up was logged and its reminder date has come: the
\* application is reported as a ghost candidate
C17_Witness ==
    \E i \in 1..Len(applications) :
        LET log == applications[i].interactions IN
        /\ applications[i].currentStage = 3
        /\ applications[i].followUpTracker.attempts = 3
        /\ Len(log) >= 1
        /\ log[Len(log)].type = "followed_up"
        /\ now = applications[i].followUpTracker.nextReminderAt
        /\ \E rem \in RemindersFor(applications, applications[i].id, now) :
               rem.isGhostCandidate

\* C18: checkReminders changes no field of any application or tracker, and
\* two calls at the same clock value over the same collection return the
\* same list.
C18_CheckRemindersIsPure ==
    \A t \in now..(now + Horizon) :
        LET first == checkFollowUpReminders(applications, t)
            second == checkFollowUpReminders(first.apps, t)
        IN /\ first.apps = applications
           /\ second.apps = applications
           /\ second.reminders = first.reminders

\* a reminder is due, so the check has something to report
C18_Witness ==
    /\ Len(reminderList(applications, now)) > 0
    /\ \E i \in 1..Len(applications) :
           applications[i].followUpTracker.attempts > 0

\* the operations, other than recordFollowUp, startTracking, stopTracking,
\* dismissNudge and closeApplication, that can follow a state: each is the
\* collection it leaves
OtherOperations(appId) ==
    {update(applications, nextId, appId, data, now).apps : data \in UpdateInputs}
    \cup {addInteraction(applications, nextId, appId,
               [type |-> type, notes |-> "text", interviewId |-> NULL],
               newStage, now).apps :
           type \in TypeInputs \ {"followed_up"},
           newStage \in StageInputs \cup {NULL}}
    \cup {moveToStage(applications, nextId, appId, newStage, now).apps :
           newStage \in {s \in StageInputs :
               \/ s = AppAt(applications, appId).currentStage
               \/ s # 3 /\ AppAt(applications, appId).currentStage # 3}}
    \cup {checkFollowUpReminders(applications, t).apps : t \in now..(now + Horizon)}
    \cup {applications}

\* C19: once an application has an active tracker and the clock has reached
\* its nextReminderAt, every later checkReminders call reports it, however
\* late or often the check is made and whatever other operation comes first,
\* until recordFollowUp, startTracking, stopTracking, dismissNudge or
\* closeApplication is applied to it.
C19_DueReminderIsNotLost ==
    \A appId \in AppIds :
        appId \in checkReminders(applications, now) =>
            \A apps \in OtherOperations(appId) :
            \A t \in now..(now + Horizon) :
                appId \in checkReminders(apps, t)

\* a reminder that fell due two days ago is still reported
C19_Witness ==
    \E i \in 1..Len(applications) :
        /\ applications[i].followUpTracker.isActive
        /\ applications[i].followUpTracker.nextReminderAt # NULL
        /\ now >= applications[i].followUpTracker.nextReminderAt + 2
        /\ applications[i].id \in checkReminders(applications, now)

\* C20 (as stated): lastUpdated of an application never decreases, and every
\* operation that changes the application sets lastUpdated to the time of
\* that operation.
C20_LastUpdatedTracksChanges ==
    [][\A i \in 1..Len(applications) : \A j \in 1..Len(applications') :
          applications'[j].id = applications[i].id =>
              /\ applications'[j].lastUpdated >= applications[i].lastUpdated
              /\ applications'[j] # applications[i] =>
                     applications'[j].lastUpdated = now]_vars

\* C21: once delete(appId) has succeeded, the interview store holds no
\* interview whose applicationId is appId.
C21_DeleteCascadesToInterviews ==
    [][\A appId \in AppIds :
          (/\ delete(applications, nextId, appId).success
           /\ Len(applications') < Len(applications)
           /\ applications' = delete(applications, nextId, appId).apps)
          => getByApplication(interviews', appId) = {}]_vars

\* C26: importing the engine's own export in replace mode succeeds and leaves
\* the collection as it was: the same applications in the same order, each
\* with its lastUpdated, interactions and followUpTracker.
C26_ImportOfExportIsIdentity ==
    LET r == importData(applications, nextId, exportData(applications), FALSE) IN
    /\ r.success
    /\ Len(r.apps) = Len(applications)
    /\ \A i \in 1..Len(applications) :
          /\ r.apps[i] = applications[i]
          /\ r.apps[i].lastUpdated = applications[i].lastUpdated
          /\ r.apps[i].interactions = applications[i].interactions
          /\ r.apps[i].followUpTracker = applications[i].followUpTracker

\* two applications last changed on different days, one with an interview
\* entry in its log and one with a running tracker
C26_Witness ==
    /\ Len(applications) = 2
    /\ applications[1].lastUpdated # applications[2].lastUpdated
    /\ \E i \in 1..2 : \E k \in 1..Len(applications[i].interactions) :
          applications[i].interactions[k].interviewId # NULL
    /\ \E i \in 1..2 : applications[i].followUpTracker.isActive
    /\ importData(applications, nextId, exportData(applications), FALSE).apps
          = applications

\* C22: a subscriber that throws during notify stops nothing: every
\* registered subscriber, those after the throwing one included, is called
\* exactly once for each notification, and the operation that notified is
\* not rejected and returns its success result.
C22_SubscriberFailuresIsolated ==
    io.status # "idle" =>
        /\ Len(io.calls) = Len(listeners)
        /\ \A k \in 1..Len(listeners) : io.calls[k] = io.notified
        /\ io.status # "rejected"
        /\ Quiescent(io) => io.status = "resolved"
        /\ io.notified > 0 => io.success

\* a throwing callback is subscribed ahead of one that does not throw, and an
\* operation has notified them and returned success
C22_Witness ==
    /\ Len(listeners) >= 2
    /\ Throws(listeners[1])
    /\ ~Throws(listeners[2])
    /\ io.status = "resolved"
    /\ io.success
    /\ io.notified >= 1
    /\ io.calls[2] = io.notified

\* what an operation that changed the collection or the interview store, or
\* that failed, must have done about the subscribers
NotifiesAsStated(r, changed) ==
    /\ (r.success /\ changed) => r.notifies >= 1
    /\ ~r.success => r.notifies = 0

\* C23: every operation that succeeds in changing data (create, update,
\* delete, addInteraction, removeInteraction, moveToStage, closeApplication,
\* scheduleInterview, updateInterview, deleteInterview, setRoundOutcome with
\* either outcome, importData) notifies the subscribers at least once, and an
\* operation that returns failure notifies nobody.
C23_MutationsNotifyFailuresDoNot ==
    /\ \A name \in NameInputs, role \in RoleInputs :
          LET r == create(applications, nextId,
                          [companyName |-> name, role |-> role,
                           currentStage |-> NULL], now)
          IN NotifiesAsStated(r, r.apps # applications)
    /\ \A appId \in AppIdInputs :
          /\ \A data \in UpdateInputs :
                LET r == update(applications, nextId, appId, data, now) IN
                NotifiesAsStated(r, r.apps # applications)
          /\ LET r == delete(applications, nextId, appId) IN
             NotifiesAsStated(r, r.apps # applications)
          /\ \A type \in TypeInputs :
                LET r == addInteraction(applications, nextId, appId,
                             [type |-> type, notes |-> "text", interviewId |-> NULL],
                             NULL, now)
                IN NotifiesAsStated(r, r.apps # applications)
          /\ \A interactionId \in InteractionIdInputs :
                LET r == removeInteraction(applications, nextId, appId,
                                           interactionId, now)
                IN NotifiesAsStated(r, r.apps # applications)
          /\ \A newStage \in StageInputs :
                LET r == moveToStage(applications, nextId, appId, newStage, now) IN
                NotifiesAsStated(r, r.apps # applications)
          /\ \A reason \in ReasonInputs :
                LET r == closeApplication(applications, nextId, appId, reason, now) IN
                NotifiesAsStated(r, r.apps # applications)
          /\ \A data \in InterviewInputs :
                LET r == scheduleInterview(applications, interviews, backend,
                                           nextId, appId, data, now)
                IN NotifiesAsStated(r, r.apps # applications \/ r.ivs # interviews)
    /\ \A interviewId \in InterviewIdInputs :
          /\ \A data \in InterviewUpdateInputs :
                LET r == updateInterview(applications, interviews, nextId,
                                         interviewId, data)
                IN NotifiesAsStated(r, r.ivs # interviews)
          /\ LET r == deleteInterview(applications, interviews, backend, nextId,
                                      interviewId)
             IN NotifiesAsStated(r, r.ivs # interviews)
          /\ \A outcome \in {"cleared", "not_cleared"} :
                LET r == setRoundOutcome(applications, interviews, nextId,
                                         interviewId, outcome, now)
                IN NotifiesAsStated(r, r.apps # applications \/ r.ivs # interviews)
    /\ \A kind \in ImportKinds, merge \in BOOLEAN :
          LET r == importData(applications, nextId,
                              ImportText(kind, applications), merge)
          IN NotifiesAsStated(r, r.apps # applications)

\* create data with a missing or blank company name or role
InvalidApplicationInputs ==
    {d \in [companyName : NameInputs, role : RoleInputs, currentStage : {NULL}] :
        Trim(d.companyName) = "" \/ Trim(d.role) = ""}

\* updates that blank the company name or the role
BlankingUpdateInputs ==
    {[NoFields EXCEPT !.companyName = name] : name \in {"", " "}}
        \cup {[NoFields EXCEPT !.role = ""]}

\* interview data without a scheduled time, a type or a mode
InvalidInterviewInputs ==
    {d \in [applicationId : {0}, scheduledAt : {NULL, 1}, type : {"", "technical"},
            mode : {"", "video"}, roundNumber : {NULL, 2}] :
        d.scheduledAt = NULL \/ d.type = "" \/ d.mode = ""}

\* a failure with a non-empty error list, no write and no notification
RefusedWithErrors(r) ==
    /\ ~r.success
    /\ Len(r.ret) > 0
    /\ r.saves = 0
    /\ r.notifies = 0

\* C24: create or update with a missing or blank company name or role, and
\* scheduleInterview without a scheduled time, a type or a mode, return
\* success = false with a non-empty error list, leave the collection (stage,
\* interactions and tracker of every application) and the interview store
\* as they were, write nothing and notify nobody.
C24_ValidationFailureChangesNothing ==
    /\ \A data \in InvalidApplicationInputs :
          LET r == create(applications, nextId, data, now) IN
          RefusedWithErrors(r) /\ r.apps = applications /\ r.nid = nextId
    /\ \A appId \in AppIds, data \in BlankingUpdateInputs :
          LET r == update(applications, nextId, appId, data, now) IN
          RefusedWithErrors(r) /\ r.apps = applications
    /\ \A appId \in AppIds, data \in InvalidInterviewInputs :
          LET r == scheduleInterview(applications, interviews, backend, nextId,
                                     appId, data, now)
          IN /\ RefusedWithErrors(r)
             /\ r.apps = applications
             /\ r.ivs = interviews
             /\ r.nid = nextId
    /\ (io.op \in {"create", "update", "scheduleInterview"} /\ ~io.success) =>
          /\ io.status = "resolved"
          /\ io.writes = <<>>
          /\ io.notified = 0

\* a create with a blank company name has been refused while an application
\* with an interview is held
C24_Witness ==
    /\ io.op = "create"
    /\ io.status = "resolved"
    /\ ~io.success
    /\ Len(applications) = 1
    /\ Len(interviews) = 1
    /\ InvalidApplicationInputs # {}

\* ids that no application has: 0, the ids of deleted applications that
\* interviews still name, and the ids of interviews
UnknownAppIds ==
    ({0} \cup {interviews[k].applicationId : k \in 1..Len(interviews)}
         \cup InterviewIds) \ AppIds

\* ids that no interview has: 0 and the ids of applications
UnknownInterviewIds == ({0} \cup AppIds) \ InterviewIds

\* a failure that leaves the collection as it was and writes nothing
FailsOnApps(r) == ~r.success /\ r.apps = applications /\ r.saves = 0

\* C25: update, delete, addInteraction, removeInteraction, moveToStage,
\* closeApplication, scheduleInterview, setRoundOutcome and updateInterview,
\* given the id of no application (no interview), return a failure without
\* throwing and leave the collection and the interview store unchanged.
C25_UnknownIdFailsCleanly ==
    /\ \A appId \in UnknownAppIds :
          /\ \A data \in UpdateInputs :
                FailsOnApps(update(applications, nextId, appId, data, now))
          /\ FailsOnApps(delete(applications, nextId, appId))
          /\ \A type \in TypeInputs, newStage \in {NULL, 3} :
                FailsOnApps(addInteraction(applications, nextId, appId,
                    [type |-> type, notes |-> "text", interviewId |-> NULL],
                    newStage, now))
          /\ \A interactionId \in InteractionIdInputs :
                FailsOnApps(removeInteraction(applications, nextId, appId,
                                              interactionId, now))
          /\ \A newStage \in StageInputs :
                FailsOnApps(moveToStage(applications, nextId, appId, newStage, now))
          /\ \A reason \in ReasonInputs :
                FailsOnApps(closeApplication(applications, nextId, appId, reason, now))
          /\ \A data \in InterviewInputs :
                LET r == scheduleInterview(applications, interviews, backend,
                                           nextId, appId, data, now)
                IN FailsOnApps(r) /\ r.ivs = interviews
    /\ \A interviewId \in UnknownInterviewIds :
          /\ \A outcome \in OutcomeInputs :
                LET r == setRoundOutcome(applications, interviews, nextId,
                                         interviewId, outcome, now)
                IN FailsOnApps(r) /\ r.ivs = interviews
          /\ \A data \in InterviewUpdateInputs :
                LET r == updateInterview(applications, interviews, nextId,
                                         interviewId, data)
                IN FailsOnApps(r) /\ r.ivs = interviews
    /\ (/\ io.op \in {"update", "delete", "addInteraction", "removeInteraction",
                       "moveToStage", "closeApplication", "scheduleInterview",
                       "setRoundOutcome", "updateInterview"}
        /\ ~io.success)
         => io.status = "resolved" /\ io.writes = <<>>

\* a delete that named no application has returned false while an
\* application and an interview are held
C25_Witness ==
    /\ io.op = "delete"
    /\ io.status = "resolved"
    /\ ~io.success
    /\ Len(applications) = 1
    /\ Len(interviews) = 1
    /\ UnknownAppIds # {}

\* the applications with a final result, those offered or accepted among
\* them, and those not ghosted among them
WithResult ==
    Cardinality({i \in 1..Len(applications) : applications[i].finalResult # ""})
Successful ==
    Cardinality({i \in 1..Len(applications) :
                    applications[i].finalResult \in {"offered", "accepted"}})
Responded ==
    Cardinality({i \in 1..Len(applications) :
                    applications[i].finalResult \notin {"", "ghosted"}})

\* r is the integer nearest to 100 * part / whole, a half rounded up
NearestPercent(r, part, whole) ==
    /\ 2 * r * whole <= 200 * part + whole
    /\ 200 * part + whole < 2 * (r + 1) * whole

RatesAsStated(a) ==
    /\ WithResult = 0 => a.successRate = 0 /\ a.responseRate = 0
    /\ WithResult > 0 =>
          /\ NearestPercent(a.successRate, Successful, WithResult)
          /\ NearestPercent(a.responseRate, Responded, WithResult)
          /\ a.successRate \in 0..100
          /\ a.responseRate \in 0..100

KeepsFinalResults(apps) ==
    /\ Len(apps) = Len(applications)
    /\ \A i \in 1..Len(applications) :
          /\ apps[i].id = applications[i].id
          /\ apps[i].finalResult = applications[i].finalResult

\* C28: moveToStage, addInteraction, removeInteraction, scheduleInterview,
\* setRoundOutcome, updateInterview and deleteInterview leave the finalResult
\* of every application as it was.
C28_FinalResultFrame ==
    /\ \A appId \in AppIdInputs :
          /\ \A newStage \in StageInputs :
                KeepsFinalResults(
                    moveToStage(applications, nextId, appId, newStage, now).apps)
          /\ \A type \in TypeInputs, newStage \in {NULL, 0, 3} :
                KeepsFinalResults(
                    addInteraction(applications, nextId, appId,
                        [type |-> type, notes |-> "text", interviewId |-> NULL],
                        newStage, now).apps)
          /\ \A interactionId \in InteractionIdInputs :
                KeepsFinalResults(
                    removeInteraction(applications, nextId, appId, interactionId,
                                      now).apps)
          /\ \A data \in InterviewInputs :
                KeepsFinalResults(
                    scheduleInterview(applications, interviews, backend, nextId,
                                      appId, data, now).apps)
    /\ \A interviewId \in InterviewIdInputs :
          /\ \A outcome \in OutcomeInputs :
                KeepsFinalResults(
                    setRoundOutcome(applications, interviews, nextId, interviewId,
                                    outcome, now).apps)
          /\ \A data \in InterviewUpdateInputs :
                KeepsFinalResults(
                    updateInterview(applications, interviews, nextId, interviewId,
                                    data).apps)
          /\ KeepsFinalResults(
                deleteInterview(applications, interviews, backend, nextId,
                                interviewId).apps)

\* an application closed as rejected has had an interview scheduled since,
\* and is still rejected
C28_Witness ==
    \E i \in 1..Len(applications) :
        /\ applications[i].finalResult = "rejected"
        /\ Len(applications[i].interactions) > 0
        /\ Last(applications[i].interactions).type = "interview_round"
        /\ \E k \in 1..Len(interviews) :
              interviews[k].applicationId = applications[i].id

\* a write of the operation has been rejected by the storage service
SomeWriteFailed == \E k \in 1..Len(io.writes) : io.writes[k].state = "failed"

\* C29: when a write of an engine operation is rejected by the storage
\* service, the operation is rejected to its caller and the subscribers are
\* not notified for it (the change made in memory stays: nothing below
\* touches the collection once the operation has been called).
C29_StorageFailureSurfaces ==
    (SomeWriteFailed /\ Quiescent(io)) =>
        /\ io.status = "rejected"
        /\ io.notified = 0

\* the engine methods that return a promise (importData returns its result
\* directly)
AsyncOperations ==
    {"create", "update", "delete", "addInteraction", "removeInteraction",
     "moveToStage", "closeApplication", "scheduleInterview", "setRoundOutcome",
     "updateInterview", "deleteInterview"}

\* C30: when the promise of an engine operation has resolved with success,
\* every write the operation caused has completed (for scheduleInterview the
\* writes of the stage move and of the 'Round N scheduled' entry, for
\* setRoundOutcome('cleared') the write of the started tracker), and a write
\* that failed has rejected the promise.
C30_ResolvedMeansPersisted ==
    io.op \in AsyncOperations =>
        /\ (io.status = "resolved" /\ io.success) =>
              \A k \in 1..Len(io.writes) : io.writes[k].state = "written"
        /\ (\E k \in 1..Len(io.writes) :
                io.writes[k].state = "failed" /\ io.writes[k].continued)
             => io.status = "rejected"

(* -------------------- the follow-up service alone --------------------- *)
(* The methods of FollowUpService are called directly on one application  *)
(* record, with every argument a caller can pass; io records the call.    *)

\* the hrDeadlineDays argument: omitted (null) or a number of days
DeadlineInputs == {NULL} \cup (0..MaxDeadline)

\* the context argument
ContextInputs == {"screening", "feedback_round_1"}

ServiceCalled(op, context, hrDeadlineDays, t) ==
    [op |-> op, status |-> "resolved", success |-> TRUE, writes |-> <<>>,
     notified |-> 0, calls |-> <<>>,
     args |-> [context |-> context, hrDeadlineDays |-> hrDeadlineDays, at |-> t]]

InitService ==
    /\ applications =
          create(<<>>, 1, [companyName |-> "Acme", role |-> "Engineer",
                           currentStage |-> NULL], 0).apps
    /\ interviews = <<>>
    /\ backend = "local"
    /\ now = 0
    /\ nextId = 2
    /\ listeners = <<>>
    /\ io = IdleIo

ServiceStartTracking ==
    \E context \in ContextInputs, hrDeadlineDays \in DeadlineInputs :
        /\ applications' = [applications EXCEPT
               ![1] = startTracking(@, context, hrDeadlineDays, now)]
        /\ io' = ServiceCalled("startTracking", context, hrDeadlineDays, now)
        /\ UNCHANGED <<interviews, backend, now, nextId, listeners>>

ServiceRecordFollowUp ==
    /\ applications[1].followUpTracker.attempts < MaxServiceAttempts
    /\ applications' = [applications EXCEPT ![1] = recordFollowUp(@, now)]
    /\ io' = ServiceCalled("recordFollowUp", "", NULL, now)
    /\ UNCHANGED <<interviews, backend, now, nextId, listeners>>

ServiceRecordHRResponse ==
    /\ applications' = [applications EXCEPT ![1] = recordHRResponse(@)]
    /\ io' = ServiceCalled("recordHRResponse", "", NULL, now)
    /\ UNCHANGED <<interviews, backend, now, nextId, listeners>>

ServiceStopTracking ==
    /\ applications' = [applications EXCEPT ![1] = stopTracking(@)]
    /\ io' = ServiceCalled("stopTracking", "", NULL, now)
    /\ UNCHANGED <<interviews, backend, now, nextId, listeners>>

ServiceTick ==
    /\ now < MaxServiceTime
    /\ now' = now + 1
    /\ UNCHANGED <<applications, interviews, backend, nextId, listeners, io>>

NextService ==
    \/ ServiceStartTracking
    \/ ServiceRecordFollowUp
    \/ ServiceRecordHRResponse
    \/ ServiceStopTracking
    \/ ServiceTick

SpecService == InitService /\ [][NextService]_vars

\* C31: after startTracking(app, context, hrDeadlineDays) the tracker's
\* nextReminderAt is the current day plus hrDeadlineDays whenever
\* hrDeadlineDays is given (0 included) and the current day plus 3 only when
\* it is omitted; attempts is 0, lastFollowUpAt is null, the tracker is
\* active, and it stores the context and hrDeadlineDays.
C31_StartTrackingWait ==
    io.op = "startTracking" =>
        LET tracker == applications[1].followUpTracker
            a == io.args
        IN /\ tracker.nextReminderAt =
                  a.at + (IF a.hrDeadlineDays = NULL
                          THEN FOLLOWUP_DEFAULTS.initialWaitDays
                          ELSE a.hrDeadlineDays)
           /\ tracker.attempts = 0
           /\ tracker.lastFollowUpAt = NULL
           /\ tracker.isActive
           /\ tracker.waitingContext = a.context
           /\ tracker.hrDeadlineDays = a.hrDeadlineDays

(* ----------------------- one interaction log alone --------------------- *)
(* One application's log grows through every operation that writes to it  *)
(* and shrinks through removeInteraction; a caller of addInteraction may   *)
(* supply the id of the new entry, an id already in the log included.      *)

LogWithinBounds(apps, ivs, nid) ==
    /\ \A i \in 1..Len(apps) : Len(apps[i].interactions) <= MaxLogLen
    /\ Len(ivs) <= MaxLogInterviews
    /\ nid <= MaxLogIds + 1

\* data.id of a logged interaction: none, or an id the log already holds
SuppliedIdInputs == (InteractionIdInputs \ {0}) \cup {NULL}

InitLog ==
    /\ applications =
          create(<<>>, 1, [companyName |-> "Acme", role |-> "Engineer",
                           currentStage |-> NULL], 0).apps
    /\ interviews = <<>>
    /\ backend = "local"
    /\ now = 0
    /\ nextId = 2
    /\ listeners = <<>>
    /\ io = IdleIo

LogAddInteraction ==
    \E appId \in AppIds, id \in SuppliedIdInputs :
        LET r == addInteraction(applications, nextId, appId,
                     [id |-> id, type |-> "note", notes |-> "text",
                      interviewId |-> NULL], NULL, now)
        IN /\ LogWithinBounds(r.apps, interviews, r.nid)
           /\ applications' = r.apps
           /\ nextId' = r.nid
           /\ UNCHANGED <<interviews, backend, now, listeners, io>>

LogMoveToStage ==
    \E appId \in AppIds, newStage \in {4} :
        LET r == moveToStage(applications, nextId, appId, newStage, now) IN
        /\ LogWithinBounds(r.apps, interviews, r.nid)
        /\ applications' = r.apps
        /\ nextId' = r.nid
        /\ UNCHANGED <<interviews, backend, now, listeners, io>>

LogCloseApplication ==
    \E appId \in AppIds :
        LET r == closeApplication(applications, nextId, appId, "rejected", now) IN
        /\ LogWithinBounds(r.apps, interviews, r.nid)
        /\ applications' = r.apps
        /\ nextId' = r.nid
        /\ UNCHANGED <<interviews, backend, now, listeners, io>>

LogScheduleInterview ==
    \E appId \in AppIds :
        LET r == scheduleInterview(applications, interviews, backend, nextId, appId,
                     [applicationId |-> 0, scheduledAt |-> 1, type |-> "technical",
                      mode |-> "video", roundNumber |-> NULL], now)
        IN /\ LogWithinBounds(r.apps, r.ivs, r.nid)
           /\ applications' = r.apps
           /\ interviews' = r.ivs
           /\ nextId' = r.nid
           /\ UNCHANGED <<backend, now, listeners, io>>

LogSetRoundOutcome ==
    \E interviewId \in InterviewIds, outcome \in {"cleared"} :
        LET r == setRoundOutcome(applications, interviews, nextId, interviewId,
                                 outcome, now)
        IN /\ applications' = r.apps
           /\ interviews' = r.ivs
           /\ UNCHANGED <<backend, now, nextId, listeners, io>>

LogRemoveInteraction ==
    \E appId \in AppIds, interactionId \in InteractionIdInputs :
        LET r == removeInteraction(applications, nextId, appId, interactionId, now) IN
        /\ applications' = r.apps
        /\ UNCHANGED <<interviews, backend, now, nextId, listeners, io>>

NextLog ==
    \/ LogAddInteraction
    \/ LogMoveToStage
    \/ LogCloseApplication
    \/ LogScheduleInterview
    \/ LogSetRoundOutcome
    \/ LogRemoveInteraction

SpecLog == InitLog /\ [][NextLog]_vars

\* every log of the collection apps continues the log the same application
\* has now: the entries held now are still there, unchanged, in their places
LogsKept(apps) ==
    /\ Len(apps) = Len(applications)
    /\ \A i \in 1..Len(applications) :
          LET old == applications[i].interactions
              new == apps[i].interactions
          IN /\ Len(old) <= Len(new)
             /\ SubSeq(new, 1, Len(old)) = old

\* the log new is the log old without one entry, which carried the id
OneRemoved(old, new, id) ==
    \E k \in 1..Len(old) :
        /\ old[k].id = id
        /\ Len(new) = Len(old) - 1
        /\ \A j \in 1..Len(new) : new[j] = IF j < k THEN old[j] ELSE old[j + 1]

\* C32: moveToStage, closeApplication, addInteraction, scheduleInterview and
\* setRoundOutcome keep every logged interaction unchanged and in its
\* position (the old log is a prefix of the new one); removeInteraction(appId,
\* id) takes out exactly one entry, which carries that id, leaves every other
\* entry as it was, and takes out nothing when no entry carries the id.
C32_LogAppendOnly ==
    /\ \A appId \in AppIdInputs :
          /\ \A newStage \in StageInputs :
                LogsKept(moveToStage(applications, nextId, appId, newStage, now).apps)
          /\ \A reason \in ReasonInputs :
                LogsKept(closeApplication(applications, nextId, appId, reason,
                                          now).apps)
          /\ \A type \in TypeInputs, id \in SuppliedIdInputs,
                newStage \in {NULL, 0, 3} :
                LogsKept(addInteraction(applications, nextId, appId,
                             [id |-> id, type |-> type, notes |-> "text",
                              interviewId |-> NULL], newStage, now).apps)
          /\ \A data \in InterviewInputs :
                LogsKept(scheduleInterview(applications, interviews, backend,
                                           nextId, appId, data, now).apps)
          /\ \A interactionId \in InteractionIdInputs :
                LET r == removeInteraction(applications, nextId, appId,
                                           interactionId, now)
                    i == findIndex(applications, appId)
                IN /\ Len(r.apps) = Len(applications)
                   /\ \A j \in 1..Len(applications) :
                         j # i => r.apps[j].interactions = applications[j].interactions
                   /\ IF r.success
                      THEN OneRemoved(applications[i].interactions,
                                      r.apps[i].interactions, interactionId)
                      ELSE /\ r.apps = applications
                           /\ \A j \in 1..Len(applications) :
                                 \A k \in 1..Len(applications[j].interactions) :
                                    j = i =>
                                      applications[j].interactions[k].id # interactionId
    /\ \A interviewId \in InterviewIdInputs, outcome \in OutcomeInputs :
          LogsKept(setRoundOutcome(applications, interviews, nextId, interviewId,
                                   outcome, now).apps)

\* a log that holds the same id twice: removing the id takes out the first of
\* the two entries and leaves the second
C32_Witness ==
    \E i \in 1..Len(applications) :
        LET log == applications[i].interactions IN
        \E j, k \in 1..Len(log) :
            /\ j < k
            /\ log[j].id = log[k].id
            /\ LET r == removeInteraction(applications, nextId, applications[i].id,
                                          log[j].id, now)
               IN /\ r.success
                  /\ r.apps[i].interactions = RemoveAt(log, j)

\* C33: addInteraction(appId, data, newStage) with a newStage other than the
\* current stage leaves the application in the currentStage and with the
\* follow-up tracker that logging the interaction without a stage and then
\* calling moveToStage(appId, newStage) leaves: entering stage 3 starts
\* tracking with context "screening", leaving stage 3 stops tracking.
C33_AddInteractionMovesLikeMoveToStage ==
    \A appId \in AppIds, type \in TypeInputs, newStage \in DOMAIN STAGES :
        LET data == [type |-> type, notes |-> "text", interviewId |-> NULL]
            atOnce == addInteraction(applications, nextId, appId, data, newStage, now)
            logged == addInteraction(applications, nextId, appId, data, NULL, now)
            moved == moveToStage(logged.apps, logged.nid, appId, newStage, now)
            a == AppAt(atOnce.apps, appId)
            b == AppAt(moved.apps, appId)
        IN newStage # AppAt(applications, appId).currentStage =>
              /\ a.currentStage = b.currentStage
              /\ a.followUpTracker = b.followUpTracker
              /\ (newStage = 3 =>
                     /\ a.followUpTracker.isActive
                     /\ a.followUpTracker.waitingContext = "screening")
              /\ (AppAt(applications, appId).currentStage = 3 =>
                     ~a.followUpTracker.isActive)

\* C34: in every reachable state no application in stage 0 has an active
\* follow-up tracker, and checkReminders reports no closed application, at
\* the current day or any day up to Horizon days later.
C34_ClosedIsNotTracked ==
    \A i \in 1..Len(applications) :
        applications[i].currentStage = 0 =>
            /\ ~applications[i].followUpTracker.isActive
            /\ \A d \in 0..Horizon :
                  applications[i].id \notin checkReminders(applications, now + d)

\* every tracker of the collection apps is active exactly when it has a
\* reminder date, and counts a natural number of attempts
TrackersConsistent(apps) ==
    \A i \in 1..Len(apps) :
        LET tracker == apps[i].followUpTracker IN
        /\ tracker.isActive <=> tracker.nextReminderAt # NULL
        /\ tracker.attempts \in Nat

\* C35: in every state reached through engine operations a follow-up tracker
\* is active exactly when its nextReminderAt is set, and attempts is a
\* non-negative integer; dismissing the nudge of any application keeps it so.
C35_ActiveIffReminderSet ==
    /\ TrackersConsistent(applications)
    /\ \A appId \in AppIds :
          TrackersConsistent(dismissFollowUpNudge(applications, nextId, appId,
                                                  now).apps)

\* a follow-up logged on an application whose tracker is not running: it is
\* not counted and the tracker stays without a reminder date
C35_Witness ==
    \E i \in 1..Len(applications) :
        LET app == applications[i] IN
        /\ Len(app.interactions) > 0
        /\ Last(app.interactions).type = "followed_up"
        /\ ~app.followUpTracker.isActive
        /\ app.followUpTracker.attempts = 0
        /\ app.followUpTracker.nextReminderAt = NULL

(* ------------------------ application ids alone ------------------------ *)
(* Applications are created with and without a caller-supplied id, edited  *)
(* with an updates object that carries an id, imported and deleted.        *)

IdsWithinBounds(apps, nid) ==
    /\ Len(apps) <= MaxIdApps
    /\ nid <= MaxGeneratedIds + 1

\* data.id of a new application: none, or an id of the caller's choosing
NewIdInputs == (1..MaxSuppliedId) \cup {NULL}

\* an application record as another installation exports it
Foreign(id) ==
    Application_create([companyName |-> "Globex", role |-> "Engineer",
                        currentStage |-> NULL], id, 0)

\* the texts imported: the engine's own export, and an array that holds one
\* foreign record twice
IdImportKinds == {"export", "twice"}

IdImportText(kind, id, apps) ==
    IF kind = "export"
    THEN exportData(apps)
    ELSE JArr(<<stringifyApplication(Foreign(id)), stringifyApplication(Foreign(id))>>)

InitIds ==
    /\ applications = <<>>
    /\ interviews = <<>>
    /\ backend = "local"
    /\ now = 0
    /\ nextId = 1
    /\ listeners = <<>>
    /\ io = IdleIo

IdsCreate ==
    \E id \in NewIdInputs :
        LET r == create(applications, nextId,
                        [id |-> id, companyName |-> "Acme", role |-> "Engineer",
                         currentStage |-> NULL], now)
        IN /\ IdsWithinBounds(r.apps, r.nid)
           /\ applications' = r.apps
           /\ nextId' = r.nid
           /\ UNCHANGED <<interviews, backend, now, listeners, io>>

IdsUpdate ==
    \E appId \in AppIds, id \in 1..MaxSuppliedId :
        LET r == update(applications, nextId, appId,
                        [id |-> id, companyName |-> "Initech", role |-> Absent,
                         currentStage |-> NULL, finalResult |-> Absent], now)
        IN /\ applications' = r.apps
           /\ UNCHANGED <<interviews, backend, now, nextId, listeners, io>>

IdsImportData ==
    \E kind \in IdImportKinds, id \in 1..MaxSuppliedId, merge \in BOOLEAN :
        LET r == importData(applications, nextId,
                            IdImportText(kind, id, applications), merge)
        IN /\ IdsWithinBounds(r.apps, r.nid)
           /\ applications' = r.apps
           /\ UNCHANGED <<interviews, backend, now, nextId, listeners, io>>

IdsDelete ==
    \E appId \in AppIds :
        LET r == delete(applications, nextId, appId) IN
        /\ applications' = r.apps
        /\ UNCHANGED <<interviews, backend, now, nextId, listeners, io>>

NextIds ==
    \/ IdsCreate
    \/ IdsUpdate
    \/ IdsImportData
    \/ IdsDelete

SpecIds == InitIds /\ [][NextIds]_vars

\* C36: in every reachable state no two applications of the collection share
\* an id, after any sequence of create (with or without a caller-supplied
\* id), update (with or without an id field) and importData in merge mode
\* (arrays holding an id twice included); and an update that carries an id
\* leaves the id of the application as it was.
C36_IdsUniqueAndImmutable ==
    /\ \A i, j \in 1..Len(applications) :
          i # j => applications[i].id # applications[j].id
    /\ \A i \in 1..Len(applications), id \in 1..MaxSuppliedId :
          LET r == update(applications, nextId, applications[i].id,
                          [id |-> id, companyName |-> "Initech", role |-> Absent,
                           currentStage |-> NULL, finalResult |-> Absent], now)
          IN r.apps[i].id = applications[i].id

(* ------------- scheduleInterview across a storage snapshot ------------- *)
(* scheduleInterview looks its application up, awaits the interview        *)
(* service and then goes on with the object it looked up. While it waits,  *)
(* the storage subscription callback may replace the engine's collection   *)
(* with the records of a snapshot; io holds the suspended call.            *)

SnapWithinBounds(apps, ivs, nid) ==
    /\ \A i \in 1..Len(apps) : Len(apps[i].interactions) <= MaxSnapLog
    /\ Len(ivs) <= MaxSnapInterviews
    /\ nid <= MaxSnapIds + 1

\* what a snapshot brings for a record: the record as held, or the record
\* moved to stage 2 on another device
RemoteChanges == {"none", "stage"}

RemoteRecord(app, change) ==
    IF change = "stage" THEN [app EXCEPT !.currentStage = 2] ELSE app

\* scheduleInterview after its await: app is the object looked up before the
\* await, which is the collection's record unless the collection was
\* replaced meanwhile (detached); moveToStage and addInteraction look the
\* application up again by id
scheduleInterviewResume(apps, ivs, nid, appId, app, detached, interview, t) ==
    LET i == findIndex(apps, appId)
        m == IF autoAdvances(app.currentStage)
             THEN moveToStage(apps, nid, appId, 5, t)
             ELSE Result(apps, nid, FALSE, "null", 0, 0)
        stopped == IF detached \/ i = 0
                   THEN m.apps
                   ELSE [m.apps EXCEPT ![i] = stopTracking(@)]
        a == addInteraction(stopped, m.nid, appId,
                 [type |-> "interview_round",
                  notes |-> "Round " \o ToString(interview.roundNumber)
                               \o " scheduled",
                  interviewId |-> interview.id],
                 NULL, t)
    IN IResult(a.apps, Append(ivs, interview), a.nid, TRUE, "null",
               m.saves + a.saves, m.notifies + a.notifies)

InitSnapshot ==
    /\ \E stage \in {1, 5} :
          applications =
              create(<<>>, 1, [companyName |-> "Acme", role |-> "Engineer",
                               currentStage |-> stage], 0).apps
    /\ interviews = <<>>
    /\ backend = "firebase"
    /\ now = 0
    /\ nextId = 2
    /\ listeners = <<>>
    /\ io = IdleIo

\* scheduleInterview up to its await: the application is looked up and the
\* interview service's create is under way
SnapScheduleBegin ==
    /\ io.status # "pending"
    /\ \E appId \in AppIds :
          LET i == findIndex(applications, appId)
              data == [applicationId |-> appId, scheduledAt |-> 1,
                       type |-> "technical", mode |-> "video",
                       roundNumber |-> Len(interviews) + 1]
          IN /\ Interview_validate(data)
             /\ nextId <= MaxSnapIds
             /\ Len(interviews) < MaxSnapInterviews
             /\ io' = [op |-> "scheduleInterview", status |-> "pending",
                       success |-> FALSE, writes |-> <<>>, notified |-> 0,
                       calls |-> <<>>, appId |-> appId, detached |-> FALSE,
                       captured |-> applications[i],
                       interview |-> Interview_create(data, nextId),
                       stageAtResume |-> NULL]
             /\ nextId' = nextId + 1
             /\ UNCHANGED <<applications, interviews, backend, now, listeners>>

\* the storage subscription callback: this.applications = applications
Snapshot ==
    \E change \in RemoteChanges :
        /\ applications' =
              [i \in 1..Len(applications) |-> RemoteRecord(applications[i], change)]
        /\ io' = IF io.status = "pending"
                 THEN [io EXCEPT !.detached = TRUE]
                 ELSE IdleIo
        /\ UNCHANGED <<interviews, backend, now, nextId, listeners>>

\* scheduleInterview from its await to its return
SnapScheduleResume ==
    /\ io.status = "pending"
    /\ LET i == findIndex(applications, io.appId)
           app == IF io.detached THEN io.captured ELSE applications[i]
           r == scheduleInterviewResume(applications, interviews, nextId,
                    io.appId, app, io.detached, io.interview, now)
       IN /\ SnapWithinBounds(r.apps, r.ivs, r.nid)
          /\ applications' = r.apps
          /\ interviews' = r.ivs
          /\ nextId' = r.nid
          /\ io' = [io EXCEPT !.status = "resolved", !.success = TRUE,
                              !.stageAtResume = applications[i].currentStage]
          /\ UNCHANGED <<backend, now, listeners>>

SnapSetRoundOutcome ==
    /\ io.status # "pending"
    /\ \E interviewId \in InterviewIds :
          LET r == setRoundOutcome(applications, interviews, nextId, interviewId,
                                   "cleared", now)
          IN /\ applications' = r.apps
             /\ interviews' = r.ivs
             /\ io' = IdleIo
             /\ UNCHANGED <<backend, now, nextId, listeners>>

SnapMoveToStage ==
    /\ io.status # "pending"
    /\ \E appId \in AppIds :
          LET r == moveToStage(applications, nextId, appId, 3, now) IN
          /\ SnapWithinBounds(r.apps, interviews, r.nid)
          /\ applications' = r.apps
          /\ nextId' = r.nid
          /\ io' = IdleIo
          /\ UNCHANGED <<interviews, backend, now, listeners>>

NextSnapshot ==
    \/ SnapMoveToStage
    \/ SnapScheduleBegin
    \/ Snapshot
    \/ SnapScheduleResume
    \/ SnapSetRoundOutcome

SpecSnapshot == InitSnapshot /\ [][NextSnapshot]_vars

\* C37: when scheduleInterview has succeeded, the record the collection
\* holds for the application has an inactive follow-up tracker, is in stage 5
\* if it was in one of the stages 1..4 when the call went on after its
\* await and in its own stage otherwise, and has the "Round N scheduled"
\* interaction as its last entry, whether or not a snapshot replaced the
\* collection while the interview was being created.
C37_ScheduleActsOnHeldRecord ==
    (io.op = "scheduleInterview" /\ io.status = "resolved" /\ io.success) =>
        LET app == AppAt(applications, io.appId) IN
        /\ ~app.followUpTracker.isActive
        /\ app.currentStage = IF autoAdvances(io.stageAtResume)
                              THEN 5 ELSE io.stageAtResume
        /\ Len(app.interactions) > 0
        /\ Last(app.interactions).interviewId = io.interview.id
        /\ Last(app.interactions).notes =
              "Round " \o ToString(io.interview.roundNumber) \o " scheduled"

\* the sum of the counts of the result histogram hist over the buckets in S
RECURSIVE SumOfCounts(_, _)
SumOfCounts(hist, S) ==
    IF S = {} THEN 0
    ELSE LET b == CHOOSE x \in S : TRUE
         IN hist[b] + SumOfCounts(hist, S \ {b})

\* C38: the analytics returned for a collection whose finalResult values are
\* "", offered, accepted, rejected, declined, ghosted or withdrawn have result
\* buckets (the in-progress bucket included) whose counts sum to the total
\* number of applications, and total = active + closed.
C38_ResultHistogramPartitions ==
    io.op = "getAnalytics" =>
        /\ SumOfCounts(io.value.byResult, DOMAIN io.value.byResult) = io.value.total
        /\ io.value.total = Len(applications)
        /\ io.value.total = io.value.active + io.value.closed

====
